---- MODULE Spec2Model ----
(***************************************************************************)
(* Model of the v-sandbox-director agent orchestration engine:             *)
(*   - ToolRegistry            (src/app/tools/registry.py)                 *)
(*   - re_render / replay_from_step rate limits (src/app/tools/*.py)       *)
(*   - DirectorRouter.classify (src/app/agent/router.py)                   *)
(*   - SandboxDirector.execute (src/app/agent/loop.py), the specialist     *)
(*     loop with budget gate, circuit breaker and anti-hallucination       *)
(*   - SmartDirector.execute   (src/app/agent/loop.py)                     *)
(*   - the session/action ledger (src/app/db/session.py)                   *)
(*                                                                         *)
(* Money is counted in units of 1e-8 USD, so that the per-token prices of  *)
(* MODEL_COSTS (USD per 1M tokens) are integers: 0.15 USD/1M = 15 units    *)
(* per token.  Python dicts are modelled as functions whose DOMAIN is the  *)
(* set of keys, so that `"error" in result` is `"error" \in DOMAIN result`.*)
(***************************************************************************)
EXTENDS Integers, Sequences, FiniteSets, TLC

(***************************************************************************)
(* Bounds of the model (configuration values and input sizes).             *)
(***************************************************************************)
\* director_max_iterations of the configuration under test
director_max_iterations == 2
\* director_budget_limit_usd of the configuration under test, in 1e-8 USD
director_budget_limit_usd == 100

(***************************************************************************)
(* Program constants.                                                      *)
(***************************************************************************)
MAX_CONSECUTIVE_FAILURES == 3
director_max_rerenders == 2

director_model == "gpt-4o-mini"
router_model == "gpt-4o-mini"

CRITICAL_TOOLS == {"replay_from_step", "re_render", "modify_payload"}

PAYLOAD_TOOLS == <<"list_tracks", "get_track_items", "get_job_status",
                   "modify_payload", "validate_payload", "re_render">>

REPLAY_TOOLS == <<"get_job_status", "list_pipeline_checkpoints",
                  "get_step_payload", "replay_from_step">>

VALID_ROUTES == {"payload", "replay", "impossible"}

\* Python's None
None == "None"

Range(s) == {s[i] : i \in 1..Len(s)}

(***************************************************************************)
(* calculate_cost: price table in 1e-8 USD per token, unknown models fall  *)
(* back to the gpt-4o-mini prices.                                         *)
(***************************************************************************)
MODEL_COSTS ==
    [m \in {"gpt-4o", "gpt-4o-mini", "gpt-4o-2024-11-20"} |->
        IF m = "gpt-4o-mini" THEN [input |-> 15, output |-> 60]
                             ELSE [input |-> 250, output |-> 1000]]

calculate_cost(model, input_tokens, output_tokens) ==
    LET costs == IF model \in DOMAIN MODEL_COSTS
                 THEN MODEL_COSTS[model] ELSE MODEL_COSTS["gpt-4o-mini"]
    IN  input_tokens * costs.input + output_tokens * costs.output

\* round(x, 6): to the nearest multiple of 1e-6 USD = 100 units
round6(c) == ((c + 50) \div 100) * 100

(***************************************************************************)
(* Completions of a call: it either returns a value or raises.             *)
(***************************************************************************)
Return(v) == [kind |-> "return", value |-> v]
Raise(category, message) ==
    [kind |-> "raise", category |-> category, message |-> message]

(***************************************************************************)
(* Python dicts that keep insertion order (ToolRegistry._tools and         *)
(* ToolRegistry._handlers): a sequence of <<key, value>> pairs, one pair   *)
(* per key.                                                                *)
(***************************************************************************)
DictKeys(d) == [i \in 1..Len(d) |-> d[i][1]]
DictValues(d) == [i \in 1..Len(d) |-> d[i][2]]
DictHas(d, k) == \E i \in 1..Len(d) : d[i][1] = k
DictGet(d, k) ==
    IF DictHas(d, k) THEN d[CHOOSE i \in 1..Len(d) : d[i][1] = k][2] ELSE None
\* d[k] = v
DictSet(d, k, v) ==
    IF DictHas(d, k)
    THEN [i \in 1..Len(d) |-> IF d[i][1] = k THEN <<k, v>> ELSE d[i]]
    ELSE Append(d, <<k, v>>)

(***************************************************************************)
(* ToolRegistry                                                            *)
(***************************************************************************)
\* ToolRegistry.__init__
EmptyRegistry == [_tools |-> <<>>, _handlers |-> <<>>]

ToolSchema(name, description, parameters) ==
    [type |-> "function",
     function |-> [name |-> name, description |-> description,
                   parameters |-> parameters]]

\* mutant of register: a name already present keeps its schema and handler
registerKeepFirst(reg, name, description, parameters, handler) ==
    IF DictHas(reg._tools, name)
    THEN reg
    ELSE [_tools |-> Append(reg._tools,
                            <<name, ToolSchema(name, description, parameters)>>),
          _handlers |-> Append(reg._handlers, <<name, handler>>)]

\* ToolRegistry.register: plain dict assignments, no check for the name
register(reg, name, description, parameters, handler) ==
    [_tools |-> DictSet(reg._tools, name,
                        ToolSchema(name, description, parameters)),
     _handlers |-> DictSet(reg._handlers, name, handler)]

\* mutant of get_openai_tools: an empty list is a filter that lets nothing
\* through
get_openai_toolsStrict(reg, allowed_tools) ==
    DictValues(SelectSeq(reg._tools,
                         LAMBDA kv : kv[1] \in Range(allowed_tools)))

\* ToolRegistry.get_openai_tools; allowed_tools is a list of names, and the
\* empty list stands for None as well (`not allowed_tools` holds of both)
get_openai_tools(reg, allowed_tools) ==
    IF allowed_tools = <<>>
    THEN DictValues(reg._tools)
    ELSE DictValues(SelectSeq(reg._tools,
                              LAMBDA kv : kv[1] \in Range(allowed_tools)))

\* the text f"Tool '{name}' não encontrada"
NotFoundText(name) == <<"Tool '", name, "' não encontrada">>
\* the text f"{type(e).__name__}: {str(e)}"
ExceptionText(category, message) == <<category, ": ", message>>

\* mutant of execute: no try/except around the handler call
executeNoCatch(reg, name, call) ==
    LET handler == DictGet(reg._handlers, name)
    IN  IF handler = None
        THEN Return([error |-> NotFoundText(name)])
        ELSE call

\* ToolRegistry.execute.  `call` is the completion of `await
\* handler(**arguments)`; it is only looked at when a handler is registered.
execute(reg, name, call) ==
    LET handler == DictGet(reg._handlers, name)
    IN  IF handler = None
        THEN Return([error |-> NotFoundText(name)])
        ELSE IF call.kind = "raise"
             THEN Return([error |-> ExceptionText(call.category, call.message)])
             ELSE Return(call.value)

\* ToolRegistry.tool_names
tool_names(reg) == DictKeys(reg._tools)

(***************************************************************************)
(* Tool handlers.  `backend` is what the video backend does with the HTTP  *)
(* request of the handler: "ok" (2xx), "error" (non-2xx), "raise" (the     *)
(* HTTP client or the argument binding raises) or "blank" (status 400 with *)
(* a JSON body whose `error` value is the empty string).                   *)
(***************************************************************************)
BackendOutcomes == {"ok", "error", "raise", "blank"}

\* the outcomes explored for the backend call of each handler
BackendOutcomesOf(name) ==
    IF name = "re_render" THEN {"ok", "error"}
    ELSE IF name = "replay_from_step" THEN {"ok", "raise", "blank"}
    ELSE {"ok"}

BackendCall(name, backend) ==
    IF backend = "raise" THEN Raise("ConnectError", "conexão recusada")
    ELSE IF backend = "error" THEN Return([error |-> <<"Erro em ", name, ": 500">>])
    ELSE Return([success |-> TRUE, tool |-> name])

\* mutant of re_render: the limit is tested with one call of slack
re_renderLate(count, max_rerenders, backend) ==
    IF count > max_rerenders + 1
    THEN Return([error |-> <<"Limite de re-renders atingido (", ToString(max_rerenders), ")">>,
                 limit_reached |-> TRUE])
    ELSE IF backend = "ok"
         THEN Return([success |-> TRUE, status |-> "rendering",
                      render_count |-> count,
                      remaining_rerenders |-> max_rerenders - count])
         ELSE BackendCall("re_render", backend)

\* register_render_tools.re_render, `count` is _rerender_count["value"]
\* after the increment of the first line of the handler
re_render(count, max_rerenders, backend) ==
    IF count > max_rerenders
    THEN Return([error |-> <<"Limite de re-renders atingido (", ToString(max_rerenders), ")">>,
                 limit_reached |-> TRUE])
    ELSE IF backend = "ok"
         THEN Return([success |-> TRUE, status |-> "rendering",
                      render_count |-> count,
                      remaining_rerenders |-> max_rerenders - count])
         ELSE BackendCall("re_render", backend)

\* register_pipeline_replay_tools.replay_from_step, `count` is
\* _replay_count["value"] after the increment
replay_from_step(count, max_replays, backend) ==
    IF count > max_replays
    THEN Return([error |-> <<"Limite de replays atingido (", ToString(max_replays), ")">>,
                 limit_reached |-> TRUE])
    ELSE IF backend = "blank"
         \* error_data.get("error", "Erro de validação") with "error": ""
         THEN Return([error |-> <<>>, success |-> FALSE])
    ELSE IF backend = "ok"
         THEN Return([success |-> TRUE, replay_count |-> count,
                      remaining_replays |-> max_replays - count])
         ELSE BackendCall("replay_from_step", backend)

\* The names registered by _build_full_registry, in registration order
REGISTERED_TOOLS == <<"list_tracks", "get_track_items", "get_job_status",
                      "modify_payload", "validate_payload", "re_render",
                      "list_pipeline_checkpoints", "get_step_payload",
                      "replay_from_step">>

RECURSIVE RegisterAll(_, _)
RegisterAll(reg, names) ==
    IF names = <<>> THEN reg
    ELSE RegisterAll(register(reg, Head(names), <<"descrição de ", Head(names)>>,
                              <<"parâmetros de ", Head(names)>>, Head(names)),
                     Tail(names))

\* _build_full_registry: every tool of the four register_* functions; the
\* handler of a tool is named like the tool
_build_full_registry == RegisterAll(EmptyRegistry, REGISTERED_TOOLS)

(***************************************************************************)
(* DirectorRouter.classify                                                 *)
(*                                                                         *)
(* A text is a sequence of strings (the pieces of an f-string); the empty  *)
(* string is <<>>.  `usage` of a model response is <<>> (None) or the pair *)
(* <<prompt_tokens, completion_tokens>>.                                   *)
(***************************************************************************)
NoUsage == <<>>
prompt_tokens(usage) == usage[1]
completion_tokens(usage) == usage[2]

\* a `route` value that is a JSON list: not hashable in Python
UnhashableRoute == "[lista]"

\* json.loads of the classifier's content.  A content is
\*   [json |-> "malformed"], [json |-> "array"] or
\*   [json |-> "object", obj |-> the dict]
json_loads(content) ==
    IF content.json = "malformed"
    THEN Raise("JSONDecodeError", "Expecting value")
    ELSE Return(content)

\* mutant of RouterFallback: the failure is classified as `impossible`
RouterFallbackAborts(category, message) ==
    [route |-> "impossible",
     reason |-> <<"Router error, fallback: ", message>>,
     tokens_input |-> 0,
     tokens_output |-> 0]

\* the `except Exception` branch of classify
RouterFallback(category, message) ==
    [route |-> "payload",
     reason |-> <<"Router error, fallback: ", message>>,
     tokens_input |-> 0,
     tokens_output |-> 0]

\* mutant of validate_route: the route is returned as the classifier gave it
validate_route_unchecked(route) == route

\* the validation of the route: an unknown route becomes "payload"
validate_route(route) ==
    IF route \notin VALID_ROUTES THEN "payload" ELSE route

\* classify, given the completion of the chat.completions.create call.  A
\* returned response is [content |-> content or <<>> for None/"",
\* usage |-> usage].
classify(response) ==
    IF response.kind = "raise"
    THEN RouterFallback(response.category, response.message)
    ELSE
      LET content == IF response.value.content = <<>>
                     THEN [json |-> "object", obj |-> <<>>]    \* "{}"
                     ELSE response.value.content[1]
          loaded == json_loads(content)
      IN  IF loaded.kind = "raise"
          THEN RouterFallback(loaded.category, loaded.message)
          ELSE IF loaded.value.json # "object"
          THEN RouterFallback("AttributeError", "object has no attribute 'get'")
          ELSE
            LET result == loaded.value.obj
                route == IF DictHas(result, "route")
                         THEN DictGet(result, "route") ELSE "payload"
                reason == IF DictHas(result, "reason")
                          THEN DictGet(result, "reason") ELSE <<>>
                usage == response.value.usage
            IN  IF route = UnhashableRoute
                THEN RouterFallback("TypeError", "unhashable type: 'list'")
                ELSE [route |-> validate_route(route),
                      reason |-> reason,
                      tokens_input |->
                          IF usage # NoUsage THEN prompt_tokens(usage) ELSE 0,
                      tokens_output |->
                          IF usage # NoUsage THEN completion_tokens(usage) ELSE 0]

(***************************************************************************)
(* The ledger (src/app/db/session.py): the tables director_sessions and    *)
(* director_actions are sequences of rows; a session id is the index of    *)
(* its row.  NULL text columns are <<>>.                                   *)
(***************************************************************************)
create_session(sessions, model, max_iterations, budget_limit_usd) ==
    Append(sessions,
           [status |-> "running", model |-> model,
            max_iterations |-> max_iterations,
            budget_limit_usd |-> budget_limit_usd,
            total_iterations |-> 0, total_tool_calls |-> 0,
            total_rerenders |-> 0, total_tokens_input |-> 0,
            total_tokens_output |-> 0, total_cost_usd |-> 0,
            result_summary |-> <<>>, error_message |-> <<>>])

update_session_counters(sessions, sid, iterations, tool_calls, rerenders, tokens_input, tokens_output, cost_usd) ==
    [sessions EXCEPT ![sid].total_iterations = iterations,
                     ![sid].total_tool_calls = tool_calls,
                     ![sid].total_rerenders = rerenders,
                     ![sid].total_tokens_input = tokens_input,
                     ![sid].total_tokens_output = tokens_output,
                     ![sid].total_cost_usd = cost_usd]

\* the UPDATE has no condition on the current status
complete_session(sessions, sid, status, result_summary, error_message) ==
    [sessions EXCEPT ![sid].status = status,
                     ![sid].result_summary = result_summary,
                     ![sid].error_message = error_message]

\* mutant of log_action: the iteration is stored counting from 0
log_actionZeroBased(rows, sid, iter, action_type, tool_name, tool_args, tool_result, tool_success, tokens_input, tokens_output, cost_usd, llm_response_text) ==
    Append(rows,
           [session_id |-> sid, iteration |-> iter - 1,
            action_type |-> action_type, tool_name |-> tool_name,
            tool_args |-> tool_args, tool_result |-> tool_result,
            tool_success |-> tool_success, tokens_input |-> tokens_input,
            tokens_output |-> tokens_output, cost_usd |-> cost_usd,
            llm_response_text |-> llm_response_text])

\* mutant of log_action: the row is inserted twice
log_actionTwice(rows, sid, iter, action_type, tool_name, tool_args, tool_result, tool_success, tokens_input, tokens_output, cost_usd, llm_response_text) ==
    LET row == [session_id |-> sid, iteration |-> iter,
                action_type |-> action_type, tool_name |-> tool_name,
                tool_args |-> tool_args, tool_result |-> tool_result,
                tool_success |-> tool_success, tokens_input |-> tokens_input,
                tokens_output |-> tokens_output, cost_usd |-> cost_usd,
                llm_response_text |-> llm_response_text]
    IN  Append(Append(rows, row), row)

\* mutant of log_action: one row per session and iteration, written over by
\* the next action of that iteration
log_actionUpsert(rows, sid, iter, action_type, tool_name, tool_args, tool_result, tool_success, tokens_input, tokens_output, cost_usd, llm_response_text) ==
    LET row == [session_id |-> sid, iteration |-> iter,
                action_type |-> action_type, tool_name |-> tool_name,
                tool_args |-> tool_args, tool_result |-> tool_result,
                tool_success |-> tool_success, tokens_input |-> tokens_input,
                tokens_output |-> tokens_output, cost_usd |-> cost_usd,
                llm_response_text |-> llm_response_text]
    IN  IF /\ rows # <<>>
           /\ rows[Len(rows)].session_id = sid
           /\ rows[Len(rows)].iteration = iter
        THEN [rows EXCEPT ![Len(rows)] = row]
        ELSE Append(rows, row)

\* log_action: one INSERT with a fresh id (the index of the new row);
\* tool_result is the value of the tool_result column, tool_result_json
\* below: the results of the handlers modelled here serialize to far fewer
\* characters than the truncation threshold and are stored whole
log_action(rows, sid, iter, action_type, tool_name, tool_args, tool_result, tool_success, tokens_input, tokens_output, cost_usd, llm_response_text) ==
    Append(rows,
           [session_id |-> sid, iteration |-> iter,
            action_type |-> action_type, tool_name |-> tool_name,
            tool_args |-> tool_args, tool_result |-> tool_result,
            tool_success |-> tool_success, tokens_input |-> tokens_input,
            tokens_output |-> tokens_output, cost_usd |-> cost_usd,
            llm_response_text |-> llm_response_text])

(***************************************************************************)
(* State                                                                   *)
(***************************************************************************)
VARIABLES
    registry,              \* a ToolRegistry instance driven by its API alone
    reg_result,            \* the last registry operation and its completion
    pc,                    \* position of the request being served
    mode,                  \* "smart" (SmartDirector) or "direct" (main.py)
    router_response,       \* the completion of the router's last model call
    route_result,          \* SmartDirector.execute: route_result
    specialist,            \* the SandboxDirector instance that runs
    director_sessions,     \* table director_sessions
    director_actions,      \* table director_actions
    status_writes,         \* history: <<session id, status>> per complete_session
    events,                \* events yielded by SandboxDirector.execute
    smart_events,          \* events yielded by SmartDirector.execute
    session_id,
    iteration,
    messages,
    usage,
    pending,               \* tool calls of the assistant turn not yet finished
    result,                \* result of the tool call being processed
    total_tool_calls,
    total_rerenders,
    total_tokens_input,
    total_tokens_output,
    total_cost,
    consecutive_failures,
    critical_tool_results,
    rerender_count,        \* _rerender_count["value"] of each specialist
    replay_count,          \* _replay_count["value"] of each specialist
    llm_calls              \* history: model calls issued by the specialist

registryVars == <<registry, reg_result>>
routerVars == <<mode, router_response, route_result, specialist>>
ledgerVars == <<director_sessions, director_actions, status_writes>>
eventVars == <<events, smart_events>>
counterVars == <<total_tool_calls, total_rerenders, total_tokens_input,
                 total_tokens_output, total_cost>>
breakerVars == <<consecutive_failures, critical_tool_results>>
limitVars == <<rerender_count, replay_count>>
loopVars == <<session_id, iteration, messages, usage, pending, result,
              counterVars, breakerVars, limitVars, llm_calls>>
vars == <<registryVars, pc, routerVars, ledgerVars, eventVars, loopVars>>

(***************************************************************************)
(* The environment: what the language models and the backend may answer.   *)
(***************************************************************************)
\* usage blocks of a model response
Usages == {NoUsage, <<4, 1>>}

\* exceptions of chat.completions.create
LLMErrors == {[category |-> "APITimeoutError", message |-> "Request timed out."]}

\* contents the classifier may return
RouterContents ==
    { [json |-> "malformed"],
      [json |-> "array"],
      [json |-> "object", obj |-> <<>>],
      [json |-> "object", obj |-> << <<"reason", <<"sem rota">> >> >>],
      [json |-> "object", obj |-> << <<"route", "payload">> >>],
      [json |-> "object", obj |-> << <<"route", "replay">> >>],
      [json |-> "object", obj |-> << <<"route", "impossible">>,
                                      <<"reason", <<"requer re-transcrição">> >> >>],
      [json |-> "object", obj |-> << <<"route", "legendas">> >>],
      [json |-> "object", obj |-> << <<"route", UnhashableRoute>> >>] }

\* usage blocks of a classifier response
RouterUsages == {NoUsage} \cup {<<p, c>> : p \in 3..5, c \in 1..2}

\* every completion of the router's model call
RouterResponses ==
    {Raise(e.category, e.message) : e \in LLMErrors}
    \cup {Return([content |-> c, usage |-> u]) :
            c \in {<<>>} \cup {<<x>> : x \in RouterContents},
            u \in RouterUsages}

RouteContent(route) == [json |-> "object", obj |-> << <<"route", route>> >>]
\* the completions of the router's model call a served request may see
SmartRouterResponses ==
    {Raise(e.category, e.message) : e \in LLMErrors}
    \cup {Return([content |-> <<RouteContent(r)>>, usage |-> <<4, 1>>]) :
            r \in {"payload", "replay"}}
    \cup {Return([content |-> << [json |-> "object",
                                   obj |-> << <<"route", "impossible">>,
                                              <<"reason", <<"requer re-transcrição">> >> >>] >>,
                   usage |-> u]) : u \in {NoUsage, <<4, 1>>}}

NoResponse == [kind |-> "none"]
NoRoute == [route |-> None, reason |-> <<>>, tokens_input |-> 0,
            tokens_output |-> 0]

\* tool names the specialist's model may ask for
RequestableTools == {"get_job_status", "re_render", "replay_from_step",
                     "ferramenta_inexistente"}
\* the `arguments` string of a requested tool call: well-formed or cut off
ValidArguments == "{\"job_id\": \"j1\"}"
MalformedArguments == "{\"job_id\": "
json_loads_arguments(arguments) ==
    IF arguments = ValidArguments
    THEN Return([job_id |-> "j1"])
    ELSE Raise("JSONDecodeError", "Expecting value")

\* the tool calls (name, arguments) a model turn may request
ToolCallRequests ==
    {[name |-> n, arguments |-> ValidArguments] : n \in RequestableTools}
    \cup {[name |-> "get_job_status", arguments |-> MalformedArguments]}

\* texts of a final answer; <<>> is a missing or empty content
ModelTexts == {<<>>, <<"Pronto, alterei a cor do texto.">>}

Specialists == {"payload_specialist", "replay_specialist", "legacy"}

\* SandboxDirector.allowed_tools; <<>> is None
allowed_tools(sp) ==
    IF sp = "payload_specialist" THEN PAYLOAD_TOOLS
    ELSE IF sp = "replay_specialist" THEN REPLAY_TOOLS
    ELSE <<>>

\* DirectorConfig.allowed_tools_list with director_allowed_tools = "all"
allowed_tools_list == <<>>

\* the tool schemas given to the model
openai_tools(sp) ==
    get_openai_tools(_build_full_registry,
                     IF allowed_tools(sp) # <<>> THEN allowed_tools(sp)
                     ELSE allowed_tools_list)

(***************************************************************************)
(* Initial state: the services are constructed, no request is served.      *)
(***************************************************************************)
LoopInit ==
    /\ session_id = 0
    /\ iteration = 0
    /\ messages = <<>>
    /\ usage = NoUsage
    /\ pending = <<>>
    /\ result = <<>>
    /\ total_tool_calls = 0
    /\ total_rerenders = 0
    /\ total_tokens_input = 0
    /\ total_tokens_output = 0
    /\ total_cost = 0
    /\ consecutive_failures = 0
    /\ critical_tool_results = <<>>
    /\ rerender_count = [sp \in Specialists |-> 0]
    /\ replay_count = [sp \in Specialists |-> 0]
    /\ llm_calls = 0

Init ==
    /\ registry = _build_full_registry
    /\ reg_result = [op |-> "none"]
    /\ pc = "idle"
    /\ mode = "none"
    /\ router_response = NoResponse
    /\ route_result = NoRoute
    /\ specialist = "none"
    /\ director_sessions = <<>>
    /\ director_actions = <<>>
    /\ status_writes = <<>>
    /\ events = <<>>
    /\ smart_events = <<>>
    /\ LoopInit

(***************************************************************************)
(* SmartDirector.execute                                                   *)
(***************************************************************************)
\* mutant of router_cost: the number of tokens in place of their price
router_cost_tokens == route_result.tokens_input + route_result.tokens_output

\* router_cost = calculate_cost(self.router.model, tokens_input, tokens_output)
router_cost ==
    calculate_cost(router_model, route_result.tokens_input,
                   route_result.tokens_output)

\* mutant of Enrich: the complete event is forwarded as the specialist gave it
EnrichNothing(event) == event

\* the loop body of `async for event in specialist.execute(...)`
Enrich(event) ==
    IF event.type = "complete"
    THEN [event EXCEPT !.total_cost = round6(event.total_cost + router_cost),
                       !.route = route_result.route]
    ELSE event

\* a `yield` of SandboxDirector.execute; under SmartDirector the event goes
\* through the `async for` body before it reaches the consumer
Emit(event) ==
    /\ events' = Append(events, event)
    /\ smart_events' = IF mode = "smart"
                       THEN Append(smart_events, Enrich(event))
                       ELSE smart_events

\* SmartDirector.execute up to the await of the router's model call
SmartExecute ==
    /\ pc = "idle"
    /\ \E response \in SmartRouterResponses : router_response' = response
    /\ mode' = "smart"
    /\ pc' = "classify"
    /\ UNCHANGED <<registryVars, route_result, specialist, ledgerVars,
                   eventVars, loopVars>>

\* classify returns and SmartDirector.execute yields `routed`
ClassifyReturn ==
    /\ pc = "classify"
    /\ LET rr == classify(router_response)
       IN  /\ route_result' = rr
           /\ smart_events' = Append(smart_events,
                 [type |-> "routed", route |-> rr.route, reason |-> rr.reason,
                  router_tokens |-> rr.tokens_input + rr.tokens_output])
    /\ pc' = "routed"
    /\ UNCHANGED <<registryVars, mode, router_response, specialist, ledgerVars,
                   events, loopVars>>

\* route == "impossible": one `complete` event, no specialist
SmartImpossible ==
    /\ pc = "routed"
    /\ route_result.route = "impossible"
    /\ smart_events' = Append(smart_events,
          [type |-> "complete", status |-> "completed",
           result |-> <<"Não foi possível atender: ">> \o route_result.reason,
           total_iterations |-> 0,
           total_cost |-> router_cost,
           route |-> route_result.route])
    /\ pc' = "done"
    /\ UNCHANGED <<registryVars, routerVars, ledgerVars, events, loopVars>>

\* SandboxDirector.execute up to `yield session_created`
StartSession(sp) ==
    /\ director_sessions' =
          create_session(director_sessions, director_model,
                         director_max_iterations, director_budget_limit_usd)
    /\ session_id' = Len(director_sessions) + 1
    /\ specialist' = sp
    /\ pc' = "session_created"

\* route is payload or replay: the specialist of the route starts
SmartDispatch ==
    /\ pc = "routed"
    /\ route_result.route # "impossible"
    /\ StartSession(IF route_result.route = "replay"
                    THEN "replay_specialist" ELSE "payload_specialist")
    /\ Emit([type |-> "session_created",
             session_id |-> Len(director_sessions) + 1])
    /\ UNCHANGED <<registryVars, mode, router_response, route_result,
                   director_actions, status_writes, iteration, messages,
                   usage, pending, result, counterVars, breakerVars,
                   limitVars, llm_calls>>

\* main.py: execute_director / execute_director_stream build a fresh
\* SandboxDirector(config) and iterate its execute
DirectExecute ==
    /\ pc = "idle"
    /\ mode' = "direct"
    /\ StartSession("legacy")
    /\ events' = Append(events, [type |-> "session_created",
                                 session_id |-> Len(director_sessions) + 1])
    /\ UNCHANGED <<registryVars, router_response, route_result, smart_events,
                   director_actions, status_writes, iteration, messages,
                   usage, pending, result, counterVars, breakerVars,
                   limitVars, llm_calls>>

(***************************************************************************)
(* SandboxDirector.execute: the specialist loop                            *)
(***************************************************************************)
\* mutant of IsSuccess: a rejection by a rate limit is not a failure
IsSuccessUnlessLimited(res) == "error" \notin DOMAIN res \/ "limit_reached" \in DOMAIN res

\* is_success = "error" not in result
IsSuccess(res) == "error" \notin DOMAIN res

\* the route argument of execute: None unless SmartDirector passes it
RouteArg == IF mode = "smart" THEN route_result.route ELSE None

\* tool_call.id of the i-th call of the turn of iteration `iter`
CallId(iter, i) == <<iter, i>>
ToolCall(iter, i, request) ==
    [id |-> CallId(iter, i), name |-> request.name,
     arguments |-> request.arguments]

\* the batches of tool calls of a model turn: one call or two calls
ToolCallBatches(iter) ==
    { <<ToolCall(iter, 1, a)>> : a \in ToolCallRequests }
    \cup { <<ToolCall(iter, 1, a), ToolCall(iter, 2, b)>> :
              a \in ToolCallRequests, b \in ToolCallRequests }

\* mutant of OverBudget: the check tolerates twice the ceiling
OverBudgetTwice == total_cost > 2 * director_budget_limit_usd

\* the budget check at the head of the loop body
OverBudget == total_cost > director_budget_limit_usd

\* first resumption: transcript, counters, and the for loop is entered
Setup ==
    /\ pc = "session_created"
    /\ messages' = <<[role |-> "system", content |-> specialist],
                     [role |-> "user", content |-> "instruction"]>>
    /\ total_tool_calls' = 0
    /\ total_rerenders' = 0
    /\ total_tokens_input' = 0
    /\ total_tokens_output' = 0
    /\ total_cost' = 0
    /\ consecutive_failures' = 0
    /\ critical_tool_results' = <<>>
    /\ iteration' = 1
    /\ pc' = "iterate"
    /\ UNCHANGED <<registryVars, routerVars, ledgerVars, eventVars, session_id,
                   usage, pending, result, limitVars, llm_calls>>

\* the budget check at the head of an iteration fires
BudgetExceeded ==
    /\ pc = "iterate"
    /\ OverBudget
    /\ director_sessions' =
          complete_session(director_sessions, session_id, "budget_exceeded",
                           <<>>, <<"Budget limit: $", ToString(total_cost)>>)
    /\ status_writes' = Append(status_writes, <<session_id, "budget_exceeded">>)
    /\ Emit([type |-> "error", status |-> "budget_exceeded",
             result |-> <<"Limite de orçamento atingido ($",
                          ToString(total_cost), "). Sessão encerrada.">>,
             total_iterations |-> iteration,
             total_cost |-> total_cost])
    /\ pc' = "done"
    /\ UNCHANGED <<registryVars, routerVars, director_actions, loopVars>>

\* the model call raises; `next_pc` is where the generator goes on after the
\* error event
LLMCallFailsThen(next_pc) ==
    /\ pc = "iterate"
    /\ ~ OverBudget
    /\ \E e \in LLMErrors :
         /\ director_sessions' =
               complete_session(director_sessions, session_id, "error",
                                <<>>, <<e.message>>)
         /\ Emit([type |-> "error", status |-> "error",
                  result |-> <<"Erro LLM: ", e.message>>])
    /\ status_writes' = Append(status_writes, <<session_id, "error">>)
    /\ llm_calls' = llm_calls + 1
    /\ pc' = next_pc
    /\ UNCHANGED <<registryVars, routerVars, director_actions, session_id,
                   iteration, messages, usage, pending, result, counterVars,
                   breakerVars, limitVars>>

\* mutant of LLMCallFails: the `return` is missing and the call is tried
\* again
LLMCallFailsRetries == LLMCallFailsThen("iterate")

\* the model call raises: terminal write, error event, `return`
LLMCallFails == LLMCallFailsThen("done")

\* mutant of Account: the cost of the turn is deducted from the total
AccountDeductsCost(u) ==
    /\ usage' = u
    /\ total_tokens_input' =
          IF u # NoUsage THEN total_tokens_input + prompt_tokens(u)
          ELSE total_tokens_input
    /\ total_tokens_output' =
          IF u # NoUsage THEN total_tokens_output + completion_tokens(u)
          ELSE total_tokens_output
    /\ total_cost' =
          IF u # NoUsage
          THEN total_cost - calculate_cost(director_model, prompt_tokens(u),
                                           completion_tokens(u))
          ELSE total_cost

\* token accounting of a model response
Account(u) ==
    /\ usage' = u
    /\ total_tokens_input' =
          IF u # NoUsage THEN total_tokens_input + prompt_tokens(u)
          ELSE total_tokens_input
    /\ total_tokens_output' =
          IF u # NoUsage THEN total_tokens_output + completion_tokens(u)
          ELSE total_tokens_output
    /\ total_cost' =
          IF u # NoUsage
          THEN total_cost + calculate_cost(director_model, prompt_tokens(u),
                                           completion_tokens(u))
          ELSE total_cost

\* cost_usd / tokens columns of an action of the current model turn
TurnTokensIn(u) == IF u # NoUsage THEN prompt_tokens(u) ELSE 0
TurnTokensOut(u) == IF u # NoUsage THEN completion_tokens(u) ELSE 0
TurnCost(u) == calculate_cost(director_model, TurnTokensIn(u), TurnTokensOut(u))

\* the model answers with tool calls
LLMToolCalls ==
    /\ pc = "iterate"
    /\ ~ OverBudget
    /\ \E u \in Usages, calls \in ToolCallBatches(iteration) :
         /\ Account(u)
         /\ messages' = Append(messages, [role |-> "assistant",
                                          tool_calls |-> calls])
         /\ pending' = calls
    /\ llm_calls' = llm_calls + 1
    /\ pc' = "tools"
    /\ UNCHANGED <<registryVars, routerVars, ledgerVars, eventVars, session_id,
                   iteration, result, total_tool_calls, total_rerenders,
                   breakerVars, limitVars>>

\* any(success for _, success, _ in critical_tool_results)
any_critical_success(trail) == \E i \in 1..Len(trail) : trail[i][2]

\* the "name: err" entries joined into the corrected answer: the entries of
\* the trail whose error text is not empty
failed_details(trail) ==
    LET failed == SelectSeq(trail, LAMBDA t : t[3] # <<>>)
    IN  [i \in 1..Len(failed) |-> <<failed[i][1], ": ", failed[i][3]>>]

\* mutant of reconcile: the answer is replaced as soon as one critical call
\* failed
reconcileAnyFailure(result_text, trail) ==
    IF \E i \in 1..Len(trail) : ~ trail[i][2]
    THEN <<"Não foi possível realizar a alteração solicitada. As operações falharam: ",
           failed_details(trail),
           ". Isso pode acontecer quando o tipo de modificação não é suportado">>
    ELSE result_text

\* the anti-hallucination check of the final-answer branch
reconcile(result_text, trail) ==
    IF trail # <<>> /\ ~ any_critical_success(trail)
    THEN <<"Não foi possível realizar a alteração solicitada. As operações falharam: ",
           failed_details(trail),
           ". Isso pode acontecer quando o tipo de modificação não é suportado">>
    ELSE result_text

\* assistant_message.content or "Concluído sem mensagem."
content_or_default(content) ==
    IF content = <<>> THEN <<"Concluído sem mensagem.">> ELSE content

\* mutant of all_critical_failed: one failed critical call is enough
any_critical_failed(trail) == \E i \in 1..Len(trail) : ~ trail[i][2]

all_critical_failed(trail) == trail # <<>> /\ ~ any_critical_success(trail)

final_status(trail) ==
    IF all_critical_failed(trail) THEN "completed_with_errors" ELSE "completed"

CompleteEvent(status, result_text, iter, trail) ==
    LET base == [type |-> "complete", status |-> status,
                 result |-> result_text, session_id |-> session_id,
                 total_iterations |-> iter,
                 total_tool_calls |-> total_tool_calls,
                 total_cost |-> round6(total_cost'),
                 route |-> RouteArg]
    IN  IF all_critical_failed(trail)
        THEN base @@ [had_critical_failures |-> TRUE]
        ELSE base

\* the model answers with free text: the final-answer branch
LLMFinalAnswer ==
    /\ pc = "iterate"
    /\ ~ OverBudget
    /\ \E u \in Usages, content \in ModelTexts :
         LET result_text == reconcile(content_or_default(content),
                                      critical_tool_results)
             status == final_status(critical_tool_results)
         IN  /\ Account(u)
             /\ messages' = Append(messages, [role |-> "assistant",
                                              content |-> content])
             /\ director_actions' =
                   log_action(director_actions, session_id, iteration,
                              "llm_response", None, <<>>, <<>>, None,
                              TurnTokensIn(u), TurnTokensOut(u), TurnCost(u),
                              result_text)
             /\ director_sessions' =
                   complete_session(
                     update_session_counters(
                        director_sessions, session_id, iteration,
                        total_tool_calls, total_rerenders,
                        total_tokens_input', total_tokens_output', total_cost'),
                     session_id, status, result_text, <<>>)
             /\ status_writes' = Append(status_writes, <<session_id, status>>)
             /\ Emit(CompleteEvent(status, result_text, iteration,
                                   critical_tool_results))
    /\ llm_calls' = llm_calls + 1
    /\ pc' = "done"
    /\ UNCHANGED <<registryVars, routerVars, session_id, iteration, pending,
                   result, total_tool_calls, total_rerenders, breakerVars,
                   limitVars>>

\* mutant of tool_call: the last call of the turn is taken first
tool_callLast == pending[Len(pending)]

\* the tool call being processed by `for tool_call in ...tool_calls`
tool_call == Head(pending)

\* mutant of append_tool_message: the result of a failed call is left out
append_tool_messageOnSuccess(transcript, id, res) ==
    IF "error" \in DOMAIN res THEN transcript
    ELSE Append(transcript, [role |-> "tool", tool_call_id |-> id, content |-> res])

\* messages.append({"role": "tool", "tool_call_id": tool_call.id, ...})
append_tool_message(transcript, id, res) ==
    Append(transcript, [role |-> "tool", tool_call_id |-> id, content |-> res])

\* mutant of IsRerender: a failed render is counted too
IsRerenderAttempt(tool_name, is_success) == tool_name \in {"re_render", "replay_from_step"}

\* tool_name in ("re_render", "replay_from_step") and is_success
IsRerender(tool_name, is_success) == tool_name \in {"re_render", "replay_from_step"} /\ is_success

\* json.loads(tool_call.function.arguments) raises: nothing catches it
ToolArgumentsMalformed ==
    /\ pc = "tools"
    /\ json_loads_arguments(tool_call.arguments).kind = "raise"
    /\ pc' = "raised"
    /\ UNCHANGED <<registryVars, routerVars, ledgerVars, eventVars, loopVars>>

\* completion of `await handler(**arguments)` for the handler `name`
HandlerCall(name, backend) ==
    IF name = "re_render"
    THEN re_render(rerender_count[specialist] + 1, director_max_rerenders,
                   backend)
    ELSE IF name = "replay_from_step"
    THEN replay_from_step(replay_count[specialist] + 1,
                          director_max_rerenders, backend)
    ELSE BackendCall(name, backend)

\* one tool call of the turn, from json.loads to `yield tool_call`; an
\* exception out of registry.execute would leave the generator
ToolCallExec ==
    /\ pc = "tools"
    /\ json_loads_arguments(tool_call.arguments).kind = "return"
    /\ \E backend \in BackendOutcomesOf(tool_call.name) :
         LET tool_name == tool_call.name
             tool_args == json_loads_arguments(tool_call.arguments).value
             done == execute(registry, tool_name,
                             HandlerCall(tool_name, backend))
             res == done.value
             is_success == IsSuccess(res)
             invoked == DictHas(registry._handlers, tool_name)
         IN  /\ rerender_count' =
                   IF invoked /\ tool_name = "re_render"
                   THEN [rerender_count EXCEPT ![specialist] = @ + 1]
                   ELSE rerender_count
             /\ replay_count' =
                   IF invoked /\ tool_name = "replay_from_step"
                   THEN [replay_count EXCEPT ![specialist] = @ + 1]
                   ELSE replay_count
             /\ IF done.kind = "raise"
                THEN /\ pc' = "raised"
                     /\ UNCHANGED <<result, total_tool_calls, total_rerenders,
                                    director_actions, messages, eventVars>>
                ELSE /\ pc' = "tool_call_yield"
                     /\ result' = res
                     /\ total_tool_calls' = total_tool_calls + 1
                     /\ total_rerenders' =
                           IF IsRerender(tool_name, is_success)
                           THEN total_rerenders + 1 ELSE total_rerenders
                     /\ director_actions' =
                           log_action(director_actions, session_id, iteration,
                                      "tool_call", tool_name, tool_args, res,
                                      is_success, TurnTokensIn(usage),
                                      TurnTokensOut(usage), TurnCost(usage),
                                      <<>>)
                     /\ messages' =
                           append_tool_message(messages, tool_call.id, res)
                     /\ Emit([type |-> "tool_call", iteration |-> iteration,
                              tool |-> tool_name, args |-> tool_args,
                              success |-> is_success,
                              cost_so_far |-> round6(total_cost)])
    /\ UNCHANGED <<registryVars, routerVars, director_sessions, status_writes,
                   session_id, iteration, usage, pending, total_tokens_input,
                   total_tokens_output, total_cost, breakerVars, llm_calls>>

(***************************************************************************)
(* After `yield tool_call`: the critical-tool trail and the circuit        *)
(* breaker, then the next tool call, the next iteration or the end of the  *)
(* for loop.                                                               *)
(***************************************************************************)
\* critical_tool_results after the tool call just yielded
TrailAfter ==
    LET tool_name == tool_call.name
    IN  IF tool_name \in CRITICAL_TOOLS
        THEN Append(critical_tool_results,
                    <<tool_name, IsSuccess(result),
                      IF ~ IsSuccess(result) THEN result.error ELSE <<>> >>)
        ELSE critical_tool_results

\* mutant of FailuresAfter: a success does not clear the counter
FailuresAfterNoReset ==
    IF IsSuccess(result) THEN consecutive_failures ELSE consecutive_failures + 1

\* consecutive_failures after the tool call just yielded
FailuresAfter ==
    IF IsSuccess(result) THEN 0 ELSE consecutive_failures + 1

\* mutant of BreakerTrips: `>` in place of `>=`
BreakerTripsLate ==
    ~ IsSuccess(result) /\ FailuresAfter > MAX_CONSECUTIVE_FAILURES

BreakerTrips ==
    ~ IsSuccess(result) /\ FailuresAfter >= MAX_CONSECUTIVE_FAILURES

\* the circuit breaker fires; `next_pc` and `rest` are where the generator
\* goes on after the terminal yield
CircuitBreakerThen(next_pc, rest) ==
    /\ pc = "tool_call_yield"
    /\ BreakerTrips
    /\ critical_tool_results' = TrailAfter
    /\ consecutive_failures' = FailuresAfter
    /\ LET error_summary ==
              <<"Múltiplas falhas consecutivas (", ToString(FailuresAfter),
                "). Última falha: ", tool_call.name, " → ", result.error>>
       IN  /\ director_sessions' =
                 complete_session(director_sessions, session_id, "error", <<>>,
                                  <<"Circuit breaker: ">> \o error_summary)
           /\ Emit([type |-> "error", status |-> "circuit_breaker",
                    result |-> <<"Não foi possível completar a alteração. ",
                                 "Detalhes: ">> \o error_summary,
                    total_iterations |-> iteration,
                    total_cost |-> round6(total_cost)])
    /\ status_writes' = Append(status_writes, <<session_id, "error">>)
    /\ pc' = next_pc
    /\ pending' = rest
    /\ UNCHANGED <<registryVars, routerVars, director_actions, session_id,
                   iteration, messages, usage, result, counterVars,
                   limitVars, llm_calls>>

\* mutant of CircuitBreaker: the `return` after the terminal yield is
\* missing, the for loop over the tool calls goes on
CircuitBreakerNoReturn ==
    CircuitBreakerThen(IF Len(pending) > 1 THEN "tools" ELSE "done",
                       Tail(pending))

\* the circuit breaker fires: terminal write, terminal event, `return`; the
\* rest of the turn is abandoned
CircuitBreaker == CircuitBreakerThen("done", pending)

\* the turn has another tool call
NextToolCall ==
    /\ pc = "tool_call_yield"
    /\ ~ BreakerTrips
    /\ Len(pending) > 1
    /\ critical_tool_results' = TrailAfter
    /\ consecutive_failures' = FailuresAfter
    /\ pending' = Tail(pending)
    /\ pc' = "tools"
    /\ UNCHANGED <<registryVars, routerVars, ledgerVars, eventVars, session_id,
                   iteration, messages, usage, result, counterVars, limitVars,
                   llm_calls>>

\* mutant of LoopExhausted: the range has one iteration more
LoopExhaustedLate == iteration >= director_max_iterations + 1

\* `for iteration in range(1, director_max_iterations + 1)` has no further
\* value
LoopExhausted == iteration >= director_max_iterations

\* the turn is finished and the for loop has another iteration
NextIteration ==
    /\ pc = "tool_call_yield"
    /\ ~ BreakerTrips
    /\ Len(pending) = 1
    /\ ~ LoopExhausted
    /\ critical_tool_results' = TrailAfter
    /\ consecutive_failures' = FailuresAfter
    /\ pending' = <<>>
    /\ iteration' = iteration + 1
    /\ pc' = "iterate"
    /\ UNCHANGED <<registryVars, routerVars, ledgerVars, eventVars, session_id,
                   messages, usage, result, counterVars, limitVars, llm_calls>>

\* the turn is finished and the for loop is exhausted
MaxIterationsReached ==
    /\ pc = "tool_call_yield"
    /\ ~ BreakerTrips
    /\ Len(pending) = 1
    /\ LoopExhausted
    /\ critical_tool_results' = TrailAfter
    /\ consecutive_failures' = FailuresAfter
    /\ pending' = <<>>
    /\ director_sessions' =
          complete_session(
            update_session_counters(
               director_sessions, session_id, director_max_iterations,
               total_tool_calls, total_rerenders, total_tokens_input,
               total_tokens_output, total_cost),
            session_id, "error", <<>>,
            <<"Max iterations reached (", ToString(director_max_iterations), ")">>)
    /\ status_writes' = Append(status_writes, <<session_id, "error">>)
    /\ Emit([type |-> "error", status |-> "max_iterations",
             result |-> <<"Limite de iterações atingido (",
                          ToString(director_max_iterations), ")">>,
             total_iterations |-> director_max_iterations,
             total_cost |-> round6(total_cost)])
    /\ pc' = "done"
    /\ UNCHANGED <<registryVars, routerVars, director_actions, session_id,
                   iteration, messages, usage, result, counterVars, limitVars,
                   llm_calls>>

Next ==
    \/ SmartExecute
    \/ ClassifyReturn
    \/ SmartImpossible
    \/ SmartDispatch
    \/ DirectExecute
    \/ Setup
    \/ BudgetExceeded
    \/ LLMCallFails
    \/ LLMToolCalls
    \/ LLMFinalAnswer
    \/ ToolArgumentsMalformed
    \/ ToolCallExec
    \/ CircuitBreaker
    \/ NextToolCall
    \/ NextIteration
    \/ MaxIterationsReached

Spec == Init /\ [][Next]_vars

(***************************************************************************)
(* The registry driven through its API alone: any sequence of register,    *)
(* execute and get_openai_tools calls on a fresh ToolRegistry.             *)
(***************************************************************************)
RegNames == {"re_render", "get_job_status"}
RegDescriptions == {<<"primeira descrição">>, <<"segunda descrição">>}
RegHandlers == {"handler_a", "handler_b"}
RegParameters == <<"type: object">>
\* completions of a handler call
HandlerCompletions ==
    { Return([success |-> TRUE]),
      Return([error |-> <<"Erro ao buscar status: 500">>]),
      Raise("ConnectError", "conexão recusada"),
      Raise("TypeError", "missing 1 required positional argument") }
AllowedLists == {<<>>, <<"re_render">>, <<"get_job_status", "list_tracks">>}

RegistryInit ==
    /\ registry = EmptyRegistry
    /\ reg_result = [op |-> "none"]
    /\ pc = "idle"
    /\ mode = "none"
    /\ router_response = NoResponse
    /\ route_result = NoRoute
    /\ specialist = "none"
    /\ director_sessions = <<>>
    /\ director_actions = <<>>
    /\ status_writes = <<>>
    /\ events = <<>>
    /\ smart_events = <<>>
    /\ LoopInit

notRegistryVars == <<pc, routerVars, ledgerVars, eventVars, loopVars>>

RegistryRegister ==
    /\ \E name \in RegNames, description \in RegDescriptions,
          handler \in RegHandlers :
         /\ registry' = register(registry, name, description, RegParameters,
                                 handler)
         /\ reg_result' = [op |-> "register", name |-> name,
                           description |-> description, handler |-> handler,
                           before |-> registry]
    /\ UNCHANGED notRegistryVars

RegistryExecute ==
    /\ \E name \in RegNames \cup {"ferramenta_inexistente"},
          call \in HandlerCompletions :
         reg_result' = [op |-> "execute", name |-> name, call |-> call,
                        done |-> execute(registry, name, call)]
    /\ UNCHANGED <<registry, notRegistryVars>>

RegistryGetOpenaiTools ==
    /\ \E allowed \in AllowedLists :
         reg_result' = [op |-> "get_openai_tools", allowed |-> allowed,
                        tools |-> get_openai_tools(registry, allowed)]
    /\ UNCHANGED <<registry, notRegistryVars>>

RegistryNext ==
    \/ RegistryRegister
    \/ RegistryExecute
    \/ RegistryGetOpenaiTools

SpecRegistry == RegistryInit /\ [][RegistryNext]_vars

(***************************************************************************)
(* The router alone: classify on every completion of its model call.       *)
(***************************************************************************)
RouterCall ==
    /\ pc = "idle"
    /\ \E response \in RouterResponses : router_response' = response
    /\ mode' = "router"
    /\ pc' = "classify"
    /\ UNCHANGED <<registryVars, route_result, specialist, ledgerVars,
                   eventVars, loopVars>>

RouterReturn ==
    /\ pc = "classify"
    /\ route_result' = classify(router_response)
    /\ pc' = "classified"
    /\ UNCHANGED <<registryVars, mode, router_response, specialist, ledgerVars,
                   eventVars, loopVars>>

RouterNext ==
    \/ RouterCall
    \/ RouterReturn

SpecRouter == Init /\ [][RouterNext]_vars

(***************************************************************************)
(* Properties                                                              *)
(***************************************************************************)
Last(seq) == seq[Len(seq)]

TerminalStatuses == {"completed", "completed_with_errors", "budget_exceeded",
                     "circuit_breaker", "max_iterations", "error"}

\* the complete_session calls made for session s, in order
WritesOf(s) == SelectSeq(status_writes, LAMBDA w : w[1] = s)

\* the ledger actions of session s, in write order
ActionsOf(s) == SelectSeq(director_actions, LAMBDA a : a.session_id = s)

C2_BudgetGate ==
    /\ [][llm_calls' # llm_calls => total_cost <= director_budget_limit_usd]_vars
    /\ [][(pc = "iterate" /\ total_cost > director_budget_limit_usd) =>
            /\ pc' = "done"
            /\ llm_calls' = llm_calls
            /\ director_actions' = director_actions
            /\ director_sessions'[session_id].status = "budget_exceeded"
            /\ Last(events').type = "error"
            /\ Last(events').status = "budget_exceeded"]_vars
    /\ [](\A s \in 1..Len(director_sessions) :
            director_sessions[s].status = "budget_exceeded" => pc = "done")
    /\ [][(session_id # 0
           /\ director_sessions[session_id].status = "budget_exceeded")
          => llm_calls' = llm_calls]_vars

\* C2 witness: a session ended by the budget gate after the one model call
\* that pushed the cost past the ceiling
C2_Witness ==
    /\ pc = "done"
    /\ session_id # 0
    /\ director_sessions[session_id].status = "budget_exceeded"
    /\ llm_calls = 1
    /\ total_cost > director_budget_limit_usd

\* the length of the run of failed tool calls that ends the action log
RECURSIVE TrailingFailures(_)
TrailingFailures(rows) ==
    IF rows = <<>> THEN 0
    ELSE IF Last(rows).action_type = "tool_call" /\ ~ Last(rows).tool_success
         THEN 1 + TrailingFailures(SubSeq(rows, 1, Len(rows) - 1))
         ELSE 0

\* C3: the log never ends with more than 3 consecutive failed tool calls,
\* and when it ends with 3 the loop is either at the yield of the third
\* failure or has ended with the terminal event circuit_breaker: no tool
\* call is executed after the third consecutive failure.
C3_CircuitBreaker ==
    /\ TrailingFailures(director_actions) <= MAX_CONSECUTIVE_FAILURES
    /\ TrailingFailures(director_actions) = MAX_CONSECUTIVE_FAILURES =>
         \/ pc = "tool_call_yield"
         \/ /\ pc = "done"
            /\ Last(events).type = "error"
            /\ Last(events).status = "circuit_breaker"

\* C3 witness: the breaker has fired on a run of failures that spans two
\* iterations and a requested tool call of the turn was abandoned
C3_Witness ==
    /\ pc = "done"
    /\ events # <<>>
    /\ Last(events).type = "error"
    /\ Last(events).status = "circuit_breaker"
    /\ Len(pending) > 1
    /\ TrailingFailures(director_actions) = MAX_CONSECUTIVE_FAILURES
    /\ director_actions[Len(director_actions) - 2].iteration
         # Last(director_actions).iteration

(***************************************************************************)
(* The final answer of a session, read from the ledger, the transcript and *)
(* the event stream.                                                       *)
(***************************************************************************)
\* execute has returned after the final-answer branch
FinalAnswered ==
    pc = "done" /\ events # <<>> /\ Last(events).type = "complete"

\* the invocations of critical tools recorded for the session
CriticalCalls ==
    SelectSeq(ActionsOf(session_id),
              LAMBDA a : a.action_type = "tool_call"
                         /\ a.tool_name \in CRITICAL_TOOLS)

AllCriticalCallsFailed ==
    /\ CriticalCalls # <<>>
    /\ \A i \in 1..Len(CriticalCalls) : ~ CriticalCalls[i].tool_success

\* the content of the model's final message, as it stands in the transcript
OriginalText == Last(messages).content
\* the text of the `complete` event
ReportedText == Last(events).result
\* the text of the llm_response action
LoggedText == Last(ActionsOf(session_id)).llm_response_text

\* C4: at a final answer given after at least one critical tool call, all of
\* which failed, the reported text differs from the model's text, its list
\* of failed operations names every failing critical tool, and the event
\* and the ledger carry completed_with_errors.
C4_AntiHallucination ==
    (FinalAnswered /\ AllCriticalCallsFailed) =>
        /\ ReportedText # OriginalText
        /\ LoggedText = ReportedText
        /\ Last(events).status = "completed_with_errors"
        /\ director_sessions[session_id].status = "completed_with_errors"
        /\ \A i \in 1..Len(CriticalCalls) :
              \E j \in 1..Len(ReportedText[2]) :
                 ReportedText[2][j][1] = CriticalCalls[i].tool_name

\* C5 as stated: when no critical tool was called or one critical call
\* succeeded, the reported text and the logged text equal the model's text
\* for every model text, and the status is completed.
C5_VerbatimEveryText ==
    (FinalAnswered /\ ~ AllCriticalCallsFailed) =>
        /\ ReportedText = OriginalText
        /\ LoggedText = OriginalText
        /\ Last(events).status = "completed"
        /\ director_sessions[session_id].status = "completed"

\* C5 amended: when no critical tool was called or one critical call
\* succeeded, the reported text and the logged text equal the model's text
\* when that text is not empty and the placeholder "Concluído sem mensagem."
\* when it is empty or missing; the status is completed.
C5_VerbatimNonEmptyText ==
    (FinalAnswered /\ ~ AllCriticalCallsFailed) =>
        LET expected == IF OriginalText = <<>>
                        THEN <<"Concluído sem mensagem.">> ELSE OriginalText
        IN  /\ ReportedText = expected
            /\ LoggedText = expected
            /\ Last(events).status = "completed"
            /\ director_sessions[session_id].status = "completed"

\* C5 witness: a non-empty final text passes through although one critical
\* call failed, because another one succeeded
C5_Witness ==
    /\ FinalAnswered
    /\ OriginalText # <<>>
    /\ ReportedText = OriginalText
    /\ \E i, j \in 1..Len(CriticalCalls) :
          CriticalCalls[i].tool_success /\ ~ CriticalCalls[j].tool_success

(***************************************************************************)
(* ToolRegistry                                                            *)
(***************************************************************************)
\* C6: execute always returns; for a name without handler the result has
\* the `error` field with the not-found text, for a handler that raises it
\* has the `error` field with the exception's category and message, and for
\* a handler that returns it is the handler's result.
C6_ExecuteNeverRaises ==
    reg_result.op = "execute" =>
        /\ reg_result.done.kind = "return"
        /\ ~ DictHas(registry._handlers, reg_result.name) =>
              /\ "error" \in DOMAIN reg_result.done.value
              /\ reg_result.done.value.error = NotFoundText(reg_result.name)
        /\ (DictHas(registry._handlers, reg_result.name)
            /\ reg_result.call.kind = "raise") =>
              /\ "error" \in DOMAIN reg_result.done.value
              /\ reg_result.done.value.error =
                    <<reg_result.call.category, ": ", reg_result.call.message>>
        /\ (DictHas(registry._handlers, reg_result.name)
            /\ reg_result.call.kind = "return") =>
              reg_result.done.value = reg_result.call.value

\* C6 witness: the handler of a registered tool raised and execute returned
C6_Witness ==
    /\ reg_result.op = "execute"
    /\ DictHas(registry._handlers, reg_result.name)
    /\ reg_result.call.kind = "raise"
    /\ reg_result.done.kind = "return"

UniqueKeys(d) == \A i, j \in 1..Len(d) : d[i][1] = d[j][1] => i = j

\* C7 as stated: tool names are unique, and a register call for a name that
\* is already present leaves the registry as it was.
C7_RegisterKeepsEarlier ==
    /\ UniqueKeys(registry._tools)
    /\ UniqueKeys(registry._handlers)
    /\ (reg_result.op = "register"
        /\ DictHas(reg_result.before._handlers, reg_result.name)) =>
          registry = reg_result.before

\* C7 amended: tool names are unique and schemas and handlers have the same
\* names; register never fails, and after register(name, ...) the schema and
\* the handler of `name` are the ones just given: for a name already present
\* they replace the earlier ones in place, and every other entry is kept.
C7_RegisterReplaces ==
    /\ UniqueKeys(registry._tools)
    /\ UniqueKeys(registry._handlers)
    /\ DictKeys(registry._tools) = DictKeys(registry._handlers)
    /\ reg_result.op = "register" =>
          /\ DictGet(registry._handlers, reg_result.name) = reg_result.handler
          /\ DictGet(registry._tools, reg_result.name) =
                ToolSchema(reg_result.name, reg_result.description,
                           RegParameters)
          /\ DictHas(reg_result.before._tools, reg_result.name) =>
                DictKeys(registry._tools) = DictKeys(reg_result.before._tools)
          /\ \A i \in 1..Len(reg_result.before._tools) :
                reg_result.before._tools[i][1] # reg_result.name =>
                   /\ registry._tools[i] = reg_result.before._tools[i]
                   /\ registry._handlers[i] = reg_result.before._handlers[i]

\* C7 witness: a name was registered a second time with another handler and
\* the registry changed
C7_Witness ==
    /\ reg_result.op = "register"
    /\ DictHas(reg_result.before._handlers, reg_result.name)
    /\ DictGet(reg_result.before._handlers, reg_result.name)
          # reg_result.handler
    /\ registry # reg_result.before

(***************************************************************************)
(* DirectorRouter and SmartDirector                                        *)
(***************************************************************************)
\* the classifier's content is not a JSON object
ContentMalformed(content) ==
    content # <<>> /\ content[1].json # "object"
\* the classifier's content has no `route` field (an empty content is "{}")
ContentWithoutRoute(content) ==
    \/ content = <<>>
    \/ content[1].json = "object" /\ ~ DictHas(content[1].obj, "route")
\* the classifier's content has a `route` outside the closed set
ContentWithUnknownRoute(content) ==
    /\ content # <<>>
    /\ content[1].json = "object"
    /\ DictHas(content[1].obj, "route")
    /\ DictGet(content[1].obj, "route") \notin VALID_ROUTES

\* C8: classify returns for every completion of the model call, the route
\* it returns is payload, replay or impossible, and it is payload whenever
\* the classifier's content is malformed, has no route or has a route
\* outside the closed set; a route of the closed set is returned as given.
C8_RouteDefaultsToPayload ==
    pc = "classified" =>
        /\ route_result.route \in VALID_ROUTES
        /\ router_response.kind = "return" =>
              LET content == router_response.value.content
              IN  IF \/ ContentMalformed(content)
                     \/ ContentWithoutRoute(content)
                     \/ ContentWithUnknownRoute(content)
                  THEN route_result.route = "payload"
                  ELSE route_result.route = DictGet(content[1].obj, "route")

\* C8 witness: the classifier answered with a route outside the closed set
\* and classify returned payload
C8_Witness ==
    /\ pc = "classified"
    /\ router_response.kind = "return"
    /\ ContentWithUnknownRoute(router_response.value.content)
    /\ DictGet(router_response.value.content[1].obj, "route") = "legendas"
    /\ route_result.route = "payload"

\* C9: once classify has returned from a failed model call, the route is
\* payload, the reason holds the failure's message, both token counts are 0
\* and the routed event says so; the orchestrator can go on from there, and
\* when it has, the payload specialist is the one that runs a session.
C9_RouterFailureFallsBack ==
    (mode = "smart" /\ router_response.kind = "raise" /\ pc # "classify") =>
        /\ route_result.route = "payload"
        /\ route_result.reason =
              <<"Router error, fallback: ", router_response.message>>
        /\ route_result.tokens_input = 0
        /\ route_result.tokens_output = 0
        /\ smart_events[1].type = "routed"
        /\ smart_events[1].route = "payload"
        /\ smart_events[1].router_tokens = 0
        /\ pc = "routed" => ENABLED SmartDispatch
        /\ pc # "routed" =>
              /\ specialist = "payload_specialist"
              /\ session_id = 1
              /\ Len(director_sessions) = 1
              /\ events[1].type = "session_created"

\* C9 witness: the router's model call failed and the payload specialist
\* went on to complete a session with tool calls
C9_Witness ==
    /\ router_response.kind = "raise"
    /\ pc = "done"
    /\ specialist = "payload_specialist"
    /\ director_sessions[session_id].status = "completed"
    /\ Len(director_actions) >= 2

\* the price of the router's model call, from the usage of its response
RouterPrice ==
    IF router_response.value.usage = NoUsage THEN 0
    ELSE router_response.value.usage[1] * MODEL_COSTS[router_model].input
         + router_response.value.usage[2] * MODEL_COSTS[router_model].output

\* C10: with the route impossible the orchestrator has emitted the routed
\* event alone or, once it has returned, the routed event followed by one
\* complete event with 0 iterations and the price of the router's call as
\* total cost; no session, no specialist event, no action, no specialist
\* model call and no tool call exist.
C10_ImpossibleRoute ==
    (mode = "smart" /\ route_result.route = "impossible") =>
        /\ pc \in {"routed", "done"}
        /\ specialist = "none"
        /\ events = <<>>
        /\ director_sessions = <<>>
        /\ director_actions = <<>>
        /\ llm_calls = 0
        /\ total_tool_calls = 0
        /\ smart_events[1].type = "routed"
        /\ smart_events[1].route = "impossible"
        /\ pc = "routed" => Len(smart_events) = 1
        /\ pc = "done" =>
              /\ Len(smart_events) = 2
              /\ smart_events[2].type = "complete"
              /\ smart_events[2].total_iterations = 0
              /\ smart_events[2].total_cost = RouterPrice

\* C10 witness: the orchestrator has returned on an impossible route whose
\* classification cost something
C10_Witness ==
    /\ mode = "smart"
    /\ route_result.route = "impossible"
    /\ pc = "done"
    /\ Len(smart_events) = 2
    /\ smart_events[2].total_cost > 0

(***************************************************************************)
(* The ledger of a session against its transcript and its event stream.    *)
(***************************************************************************)
\* the tool_call actions, the llm_response actions and the tool_call events
\* of the session
ToolCallRows ==
    SelectSeq(ActionsOf(session_id), LAMBDA a : a.action_type = "tool_call")
ResponseRows ==
    SelectSeq(ActionsOf(session_id), LAMBDA a : a.action_type = "llm_response")
ToolCallEvents == SelectSeq(events, LAMBDA e : e.type = "tool_call")
\* the tool turns and the model turns of the transcript
ToolTurns == SelectSeq(messages, LAMBDA m : m.role = "tool")
ModelTurns == SelectSeq(messages, LAMBDA m : m.role = "assistant")

\* C11: the ledger of a session holds tool_call and llm_response actions
\* only, one tool_call action per executed tool call and one llm_response
\* action exactly when the final answer was given, written last; the
\* iteration count reported and stored for a final answer is the iteration
\* of that answer, i.e. the number of model turns; and a run of exactly two
\* tool calls, both successful, followed by the final answer is completed
\* with 3 actions.
C11_LedgerOfACompletedRun ==
    LET actions == ActionsOf(session_id)
        rows == ToolCallRows
        turns == Len(ModelTurns)
    IN  /\ Len(actions) = Len(rows) + Len(ResponseRows)
        /\ Len(rows) = Len(ToolTurns)
        /\ Len(rows) = Len(ToolCallEvents)
        /\ Len(ResponseRows) = IF FinalAnswered THEN 1 ELSE 0
        /\ FinalAnswered =>
              /\ Last(actions).action_type = "llm_response"
              /\ Last(actions).iteration = turns
              /\ Last(events).total_iterations = turns
              /\ director_sessions[session_id].total_iterations = turns
        /\ (FinalAnswered /\ Len(rows) = 2
            /\ \A i \in 1..2 : rows[i].tool_success) =>
              /\ Last(events).status = "completed"
              /\ director_sessions[session_id].status = "completed"
              /\ Len(actions) = 3

\* C11 witness: two successful tool calls, then the final answer
C11_Witness ==
    /\ FinalAnswered
    /\ Len(ToolCallRows) = 2
    /\ \A i \in 1..2 : ToolCallRows[i].tool_success
    /\ Len(ActionsOf(session_id)) = 3
    /\ director_sessions[session_id].status = "completed"

\* the run of execute has stopped: it returned or an exception left it
RunStopped == pc \in {"done", "raised"} /\ session_id # 0

\* every model turn of the session requested tool calls
ToolCallsInEveryTurn ==
    /\ ModelTurns # <<>>
    /\ \A i \in 1..Len(ModelTurns) : "tool_calls" \in DOMAIN ModelTurns[i]

\* the last event is an error event with one of the given statuses
EndedWith(statuses) ==
    /\ events # <<>>
    /\ Last(events).type = "error"
    /\ Last(events).status \in statuses

\* C12: a run that has stopped after model turns that all requested tool
\* calls, without the budget gate, the circuit breaker or a failed model
\* call, has ended with the max_iterations event after exactly
\* director_max_iterations model calls, and the iteration count reported
\* and stored is director_max_iterations.
C12_EndsInMaxIterations ==
    (RunStopped /\ ToolCallsInEveryTurn
     /\ ~ EndedWith({"budget_exceeded", "circuit_breaker", "error"})) =>
        /\ EndedWith({"max_iterations"})
        /\ llm_calls = director_max_iterations
        /\ Last(events).total_iterations = director_max_iterations
        /\ director_sessions[session_id].total_iterations
              = director_max_iterations

\* C13: in every session the iteration stored on the actions never decreases
\* in write order, and the first action of the session has iteration 1.
C13_IterationsNonDecreasing ==
    \A s \in 1..Len(director_sessions) :
        LET actions == ActionsOf(s)
        IN  /\ \A i, j \in 1..Len(actions) :
                  i <= j => actions[i].iteration <= actions[j].iteration
            /\ actions # <<>> => actions[1].iteration = 1

\* C13 witness: a session whose actions span two iterations
C13_Witness ==
    /\ session_id # 0
    /\ Len(ActionsOf(session_id)) >= 3
    /\ ActionsOf(session_id)[1].iteration = 1
    /\ Last(ActionsOf(session_id)).iteration = 2

\* the terminal events (complete or error) of an event stream
TerminalEvents(stream) ==
    SelectSeq(stream, LAMBDA e : e.type \in {"complete", "error"})

\* C14: the tool_call events of the specialist are as many as the tool_call
\* actions of its session, the terminal events of the specialist are as
\* many as the terminal writes of its session, and the terminal events the
\* orchestrator has emitted are as many as the terminal writes of the
\* ledger: no event without its ledger write.
C14_EventsMatchLedger ==
    /\ Len(ToolCallEvents) = Len(ToolCallRows)
    /\ Len(TerminalEvents(events)) = Len(WritesOf(session_id))
    /\ mode = "smart" =>
          Len(TerminalEvents(smart_events)) = Len(status_writes)

\* C15: when the run of execute has stopped, by a return or by an exception,
\* the session has left the status `running`.
C15_StoppedRunLeftRunning ==
    RunStopped => director_sessions[session_id].status # "running"

\* an error event of a failed model call has been emitted
LLMFailed ==
    \E i \in 1..Len(events) :
        events[i].type = "error" /\ events[i].status = "error"

\* C16: once a model call of the specialist has failed, its error event is
\* the last event, the session is in status error, execute has returned and
\* takes no further step, and the failed call was issued once: the model
\* calls are the answered turns plus that one.
C16_ModelFailureIsFatal ==
    LLMFailed =>
        /\ Last(events).type = "error"
        /\ Last(events).status = "error"
        /\ director_sessions[session_id].status = "error"
        /\ pc = "done"
        /\ ~ ENABLED Next
        /\ llm_calls = Len(ModelTurns) + 1
        /\ Len(ToolCallRows) = Len(ToolTurns)

\* C16 witness: the model call of the second iteration failed after the
\* tool calls of the first
C16_Witness ==
    /\ LLMFailed
    /\ pc = "done"
    /\ Len(ModelTurns) = 1
    /\ Len(ToolCallRows) >= 1
    /\ llm_calls = 2

\* the names of the tool schemas given to the model of specialist sp
ExposedNames(sp) ==
    {openai_tools(sp)[i].function.name : i \in 1..Len(openai_tools(sp))}

\* C17: the schemas given to the model of the payload and of the replay
\* specialist are those of the registered tools of its group, and every
\* tool call of a session of such a specialist that reached a registered
\* handler has a name in the group.
C17_ToolsWithinGroup ==
    /\ \A sp \in {"payload_specialist", "replay_specialist"} :
          ExposedNames(sp)
             = Range(allowed_tools(sp)) \cap Range(tool_names(registry))
    /\ specialist \in {"payload_specialist", "replay_specialist"} =>
          \A i \in 1..Len(ToolCallRows) :
             DictHas(registry._handlers, ToolCallRows[i].tool_name) =>
                ToolCallRows[i].tool_name \in Range(allowed_tools(specialist))

(***************************************************************************)
(* The rate limits over successive sessions: sessions dispatched through   *)
(* one SmartDirector, whose two specialists and their registries are built *)
(* once in its constructor, and sessions served by main.py, which builds a *)
(* SandboxDirector, hence a registry and its counters, per request.  Only  *)
(* the rate-limited tools are called; total_tool_calls counts the calls of *)
(* the current session.                                                    *)
(***************************************************************************)
\* sessions served one after the other
MaxSessions == 3
\* rate-limited tool calls made in one session
MaxCallsPerSession == 3

notLimitsVars ==
    <<registryVars, router_response, route_result, ledgerVars, eventVars,
      iteration, messages, usage, pending, total_tokens_input,
      total_tokens_output, total_cost, breakerVars, llm_calls>>

\* the common part of the start of a session on the director `sp`
LimitsSession(sp) ==
    /\ pc \in {"idle", "session"}
    /\ session_id < MaxSessions
    /\ session_id' = session_id + 1
    /\ specialist' = sp
    /\ total_tool_calls' = 0
    /\ total_rerenders' = 0
    /\ result' = <<>>
    /\ pc' = "session"

\* SmartDirector.execute hands the request to one of its two specialists
LimitsSmartSession ==
    /\ \E sp \in {"payload_specialist", "replay_specialist"} : LimitsSession(sp)
    /\ mode' = "smart"
    /\ UNCHANGED <<limitVars, notLimitsVars>>

\* main.py builds SandboxDirector(config) for the request: a new registry
\* with new counters
LimitsDirectSession ==
    /\ LimitsSession("legacy")
    /\ mode' = "direct"
    /\ rerender_count' = [rerender_count EXCEPT !["legacy"] = 0]
    /\ replay_count' = [replay_count EXCEPT !["legacy"] = 0]
    /\ UNCHANGED notLimitsVars

\* the session calls re_render or replay_from_step through its registry
LimitsToolCall ==
    /\ pc = "session"
    /\ total_tool_calls < MaxCallsPerSession
    /\ \E tool_name \in {"re_render", "replay_from_step"} :
         \E backend \in BackendOutcomesOf(tool_name) :
            LET res == execute(registry, tool_name,
                               HandlerCall(tool_name, backend)).value
            IN  /\ result' = res
                /\ rerender_count' =
                      IF tool_name = "re_render"
                      THEN [rerender_count EXCEPT ![specialist] = @ + 1]
                      ELSE rerender_count
                /\ replay_count' =
                      IF tool_name = "replay_from_step"
                      THEN [replay_count EXCEPT ![specialist] = @ + 1]
                      ELSE replay_count
                /\ total_rerenders' =
                      IF IsSuccess(res) THEN total_rerenders + 1
                      ELSE total_rerenders
    /\ total_tool_calls' = total_tool_calls + 1
    /\ UNCHANGED <<pc, mode, specialist, session_id, notLimitsVars>>

LimitsNext ==
    \/ LimitsSmartSession
    \/ LimitsDirectSession
    \/ LimitsToolCall

SpecLimits == Init /\ [][LimitsNext]_vars

\* C18: the quota used on the director of the current session is the quota
\* used by the calls of the current session alone: calls of another session
\* have not changed what this session may still do.
C18_LimitsScopedToSession ==
    pc = "session" =>
        rerender_count[specialist] + replay_count[specialist]
           = total_tool_calls

(***************************************************************************)
(* SmartDirector.execute as a forwarder of the specialist's events.        *)
(***************************************************************************)
\* the price of the router's call, 0 when the call failed
RouterPriceOrZero ==
    IF router_response.kind = "return" THEN RouterPrice ELSE 0

\* C19: for a route other than impossible the specialist that runs is the
\* one of the route, and the orchestrator's stream is the routed event
\* followed by the specialist's events, one for one and in order: each as
\* the specialist emitted it, except that a complete event carries the
\* specialist's total cost plus the router's price, rounded to 1e-6 USD,
\* and the route.
C19_SpecialistEventsForwarded ==
    (mode = "smart" /\ pc \notin {"idle", "classify"}
     /\ route_result.route # "impossible") =>
        /\ smart_events[1].type = "routed"
        /\ Len(smart_events) = Len(events) + 1
        /\ pc # "routed" =>
              specialist = IF route_result.route = "replay"
                           THEN "replay_specialist" ELSE "payload_specialist"
        /\ \A i \in 1..Len(events) :
              IF events[i].type = "complete"
              THEN LET sent == smart_events[i + 1]
                       exact == events[i].total_cost + RouterPriceOrZero
                   IN  /\ sent = [events[i] EXCEPT
                                     !.total_cost = sent.total_cost,
                                     !.route = route_result.route]
                       /\ sent.total_cost % 100 = 0
                       /\ sent.total_cost - exact \in -50..50
              ELSE smart_events[i + 1] = events[i]

\* C19 witness: the replay specialist completed a session with a tool call
\* and the complete event was forwarded with the router's price added
C19_Witness ==
    /\ mode = "smart"
    /\ specialist = "replay_specialist"
    /\ FinalAnswered
    /\ Len(events) >= 3
    /\ Last(smart_events).type = "complete"
    /\ Last(smart_events).total_cost > Last(events).total_cost

\* C20: get_openai_tools returns, without repetition, exactly the stored
\* schemas of the registered tools whose names are in `allowed`, and of all
\* registered tools when `allowed` is empty or absent; a name of `allowed`
\* that is not registered adds nothing.
C20_SchemaListing ==
    reg_result.op = "get_openai_tools" =>
        LET tools == reg_result.tools
            registered == Range(DictKeys(registry._tools))
            wanted == IF reg_result.allowed = <<>>
                      THEN registered
                      ELSE registered \cap Range(reg_result.allowed)
        IN  /\ {tools[i].function.name : i \in 1..Len(tools)} = wanted
            /\ Len(tools) = Cardinality(wanted)
            /\ \A i \in 1..Len(tools) :
                  tools[i] = DictGet(registry._tools, tools[i].function.name)

\* C20 witness: two tools are registered and the listing for an `allowed`
\* that names one of them and an unregistered tool returns one schema
C20_Witness ==
    /\ reg_result.op = "get_openai_tools"
    /\ reg_result.allowed = <<"get_job_status", "list_tracks">>
    /\ Len(registry._tools) = 2
    /\ Len(reg_result.tools) = 1
    /\ reg_result.tools[1].function.name = "get_job_status"

(***************************************************************************)
(* Cancellation: the consumer of the event stream stops at an event that   *)
(* is not terminal and the generator, suspended at that yield, is closed.  *)
(* Neither execute has a try/finally or an except clause around its        *)
(* yields, so the generator ends there.                                    *)
(***************************************************************************)
Cancel ==
    /\ pc \in {"routed", "session_created", "tool_call_yield"}
    /\ pc' = "cancelled"
    /\ UNCHANGED <<registryVars, routerVars, ledgerVars, eventVars, loopVars>>

CancelNext ==
    \/ Next
    \/ Cancel

SpecCancel == Init /\ [][CancelNext]_vars

\* C21: after the consumer stopped at an event of a session, nothing more
\* happens in the run, every executed tool call has its action, and the
\* session has left the status `running`.
C21_CancellationLeavesLedgerSound ==
    (pc = "cancelled" /\ session_id # 0) =>
        /\ ~ ENABLED CancelNext
        /\ Len(ToolCallRows) = Len(ToolTurns)
        /\ director_sessions[session_id].status # "running"

\* C22: every terminal event of the specialist carries total_iterations,
\* equal to the iteration the loop ended in, and total_cost, equal to the
\* accumulated cost up to the rounding to 1e-6 USD.
C22_TerminalEventCarriesTotals ==
    \A i \in 1..Len(events) :
        events[i].type \in {"complete", "error"} =>
            /\ "total_iterations" \in DOMAIN events[i]
            /\ "total_cost" \in DOMAIN events[i]
            /\ events[i].total_iterations = iteration
            /\ events[i].total_cost - total_cost \in -50..50

\* the texts of the exceptions raised by the model call and inside the tool
\* handlers
RawExceptionTexts ==
    {e.message : e \in LLMErrors}
    \cup {BackendCall("replay_from_step", "raise").message}

\* no piece of the text is the text of an exception
FreeOfExceptionText(text) ==
    \A k \in 1..Len(text) : text[k] \notin RawExceptionTexts

\* C23: every terminal event has a non-empty result text, and that text
\* holds no exception text: not in the message of a failed model call, not
\* in the last failure quoted by the circuit breaker, not in the failure
\* details of a corrected final answer.
C23_NoRawExceptionText ==
    \A i \in 1..Len(events) :
        events[i].type \in {"complete", "error"} =>
            /\ "result" \in DOMAIN events[i]
            /\ events[i].result # <<>>
            /\ events[i].status = "error" =>
                  FreeOfExceptionText(events[i].result)
            /\ events[i].status = "circuit_breaker" =>
                  FreeOfExceptionText(Last(events[i].result))
            /\ events[i].status = "completed_with_errors" =>
                  \A j \in 1..Len(events[i].result[2]) :
                     FreeOfExceptionText(events[i].result[2][j][3])

\* the tool calls requested by the first n model turns, in request order
RECURSIVE RequestedCalls(_)
RequestedCalls(n) ==
    IF n = 0 THEN <<>>
    ELSE RequestedCalls(n - 1)
         \o (IF "tool_calls" \in DOMAIN ModelTurns[n]
             THEN ModelTurns[n].tool_calls ELSE <<>>)

\* the request order is kept by the ledger, the transcript and the events
WritesAndEventsInRequestOrder ==
    LET requested == RequestedCalls(Len(ModelTurns))
        actions == ActionsOf(session_id)
        rows == ToolCallRows
        emitted == ToolCallEvents
        answered == ToolTurns
    IN  /\ \A i \in 1..Len(actions) - 1 :
              actions[i].iteration <= actions[i + 1].iteration
        /\ Len(rows) <= Len(requested)
        /\ Len(emitted) = Len(rows)
        /\ Len(answered) = Len(rows)
        /\ \A k \in 1..Len(rows) :
              /\ rows[k].tool_name = requested[k].name
              /\ answered[k].tool_call_id = requested[k].id
              /\ answered[k].content = rows[k].tool_result
              /\ emitted[k].tool = rows[k].tool_name
              /\ emitted[k].iteration = rows[k].iteration
              /\ emitted[k].success = rows[k].tool_success

\* C24: in every state of a run, written order is the order by iteration
\* and creation, since the iteration never decreases from one action of the
\* session to the next; the executed tool calls are a prefix of the requested ones, in request
\* order, each answered in the transcript under its own id and logged in
\* the iteration of its turn; and the k-th tool_call event is the event of
\* the k-th tool_call action, so that calls are logged and emitted one at a
\* time.
C24_WritesAndEventsInRequestOrder == []WritesAndEventsInRequestOrder

\* C24 witness: the two different calls of one turn and a call of the next
\* turn have been executed
C24_Witness ==
    /\ Len(ToolCallRows) = 3
    /\ ToolCallRows[1].tool_name # ToolCallRows[2].tool_name
    /\ ToolCallRows[2].iteration = 1
    /\ ToolCallRows[3].iteration = 2

\* the tool result of a tool_call action carries an `error` field
HasErrorField(row) == "error" \in DOMAIN row.tool_result

\* the length of the run of results with an `error` field that ends the
\* first n rows
RECURSIVE TrailingErrorResults(_, _)
TrailingErrorResults(rows, n) ==
    IF n = 0 THEN 0
    ELSE IF HasErrorField(rows[n])
         THEN 1 + TrailingErrorResults(rows, n - 1)
         ELSE 0

\* C25: a tool call is recorded and emitted as a success exactly when its
\* result has no `error` field; the critical-tool trail holds one entry per
\* critical call with that same flag, and the consecutive-failure counter is
\* the length of the run of results with an `error` field that ends the
\* calls made so far; so a rate-limit rejection and an unknown tool name are
\* failures.
C25_FailureIsTheErrorField ==
    LET rows == ToolCallRows
        emitted == ToolCallEvents
        \* the calls whose consequences (trail, failure counter) the loop
        \* has already drawn: all of them, except the one just yielded
        drawn == IF pc = "tool_call_yield" THEN Len(rows) - 1 ELSE Len(rows)
        settled == SelectSeq(SubSeq(rows, 1, drawn),
                             LAMBDA a : a.tool_name \in CRITICAL_TOOLS)
    IN  /\ \A k \in 1..Len(rows) :
              /\ rows[k].tool_success = ~ HasErrorField(rows[k])
              /\ emitted[k].success = ~ HasErrorField(rows[k])
              /\ "limit_reached" \in DOMAIN rows[k].tool_result
                    => ~ rows[k].tool_success
              /\ ~ DictHas(registry._handlers, rows[k].tool_name)
                    => ~ rows[k].tool_success
        /\ pc \notin {"idle", "routed", "session_created"} =>
              /\ Len(critical_tool_results) = Len(settled)
              /\ \A k \in 1..Len(settled) :
                    /\ critical_tool_results[k][1] = settled[k].tool_name
                    /\ critical_tool_results[k][2] = ~ HasErrorField(settled[k])
              /\ consecutive_failures = TrailingErrorResults(rows, drawn)

\* C25 witness: a re_render rejected by the rate limit and a call of an
\* unknown tool have both been counted as consecutive failures
C25_Witness ==
    /\ pc \notin {"tool_call_yield", "raised"}
    /\ Len(ToolCallRows) >= 2
    /\ consecutive_failures >= 2
    /\ \E k \in 1..Len(ToolCallRows) :
          "limit_reached" \in DOMAIN ToolCallRows[k].tool_result
    /\ \E k \in 1..Len(ToolCallRows) :
          ~ DictHas(registry._handlers, ToolCallRows[k].tool_name)

\* the event carries had_critical_failures = true
Flagged(e) == "had_critical_failures" \in DOMAIN e /\ e.had_critical_failures

\* the `complete` events of a stream
CompleteEvents(stream) == SelectSeq(stream, LAMBDA e : e.type = "complete")

CountersDoNotDecrease ==
    /\ total_tool_calls' >= total_tool_calls
    /\ total_rerenders' >= total_rerenders
    /\ total_tokens_input' >= total_tokens_input
    /\ total_tokens_output' >= total_tokens_output
    /\ total_cost' >= total_cost

\* C27: no step of the session decreases the tool-call count, the
\* critical-render count, the token totals or the accumulated cost, and the
\* cost_so_far of the tool_call events never decreases along the stream.
C27_CountersNeverDecrease ==
    /\ [][CountersDoNotDecrease]_vars
    /\ [](\A i, j \in 1..Len(ToolCallEvents) :
             i < j => ToolCallEvents[i].cost_so_far
                         <= ToolCallEvents[j].cost_so_far)

\* C27 witness: tool calls of two model turns, the second turn charged, so
\* that the cost of the events grew while every counter is positive
C27_Witness ==
    /\ Len(ToolCallEvents) >= 2
    /\ ToolCallEvents[1].cost_so_far < Last(ToolCallEvents).cost_so_far
    /\ Last(ToolCallEvents).cost_so_far = round6(total_cost)
    /\ total_tool_calls >= 2
    /\ total_rerenders >= 1
    /\ total_tokens_input > 0
    /\ total_tokens_output > 0

\* a step leaves every action already written as it is, under its id (its
\* position), and inserts at most one action, under the next id
ActionsOnlyAppended ==
    /\ Len(director_actions') \in {Len(director_actions), Len(director_actions) + 1}
    /\ \A id \in 1..Len(director_actions) :
          director_actions'[id] = director_actions[id]

\* C28: no step of the loop or of the ledger module changes or removes an
\* action already written: a step leaves the actions alone or inserts one
\* action under a fresh id.
C28_LedgerAppendOnly == [][ActionsOnlyAppended]_vars

\* C28 witness: two tool calls of one iteration and the final answer were
\* logged, and the counters and the terminal status were written after them
C28_Witness ==
    /\ FinalAnswered
    /\ Len(director_actions) = 3
    /\ director_actions[1].iteration = director_actions[2].iteration
    /\ director_sessions[session_id].status \in TerminalStatuses

(***************************************************************************)
(* The tool_result column: log_action on serialized results of any size.   *)
(* A text is a sequence of runs <<unit, n>>: the unit repeated n times;    *)
(* the run <<"#", n>> is the decimal numeral of n.                         *)
(***************************************************************************)
MaxLoggedResults == 1
TRUNCATION_THRESHOLD == 10240
PREVIEW_CHARS == 2000

\* the literal parts of json.dumps({"_truncated": True, "_original_size": n,
\* "_preview": p})
MarkerHead == "{\"_truncated\": true, \"_original_size\": "
MarkerMid == ", \"_preview\": \""
MarkerTail == "\"}"

\* the number of characters of a unit
UnitLen(unit) ==
    CASE unit = "x" -> 1
      [] unit = "\"" -> 1
      [] unit = "\\\"" -> 2
      [] unit = MarkerHead -> 39
      [] unit = MarkerMid -> 15
      [] unit = MarkerTail -> 2

\* the number of decimal digits of n
RECURSIVE Digits(_)
Digits(n) == IF n < 10 THEN 1 ELSE 1 + Digits(n \div 10)

RunLen(run) == IF run[1] = "#" THEN Digits(run[2]) ELSE UnitLen(run[1]) * run[2]

\* len(text)
RECURSIVE TextLen(_)
TextLen(text) ==
    IF text = <<>> THEN 0 ELSE RunLen(Head(text)) + TextLen(Tail(text))

\* text[:n], for a text of one-character units
RECURSIVE Prefix(_, _)
Prefix(text, n) ==
    IF text = <<>> \/ n = 0 THEN <<>>
    ELSE IF Head(text)[2] <= n
         THEN <<Head(text)>> \o Prefix(Tail(text), n - Head(text)[2])
         ELSE << <<Head(text)[1], n>> >>

\* the body of the string literal json.dumps writes for text: a quote is
\* written as backslash and quote
json_escape(text) ==
    [i \in 1..Len(text) |->
        IF text[i][1] = "\"" THEN <<"\\\"", text[i][2]>> ELSE text[i]]

\* mutant of tool_result_json: `>=` in place of `>`
tool_result_jsonAtThreshold(serialized) ==
    IF TextLen(serialized) >= TRUNCATION_THRESHOLD
    THEN << <<MarkerHead, 1>>, <<"#", TextLen(serialized)>>, <<MarkerMid, 1>> >>
         \o json_escape(Prefix(serialized, PREVIEW_CHARS))
         \o << <<MarkerTail, 1>> >>
    ELSE serialized

\* tool_result_json of log_action, from serialized = json.dumps(tool_result)
tool_result_json(serialized) ==
    IF TextLen(serialized) > TRUNCATION_THRESHOLD
    THEN << <<MarkerHead, 1>>, <<"#", TextLen(serialized)>>, <<MarkerMid, 1>> >>
         \o json_escape(Prefix(serialized, PREVIEW_CHARS))
         \o << <<MarkerTail, 1>> >>
    ELSE serialized

\* serialized tool results: plain characters and quotes, of sizes around
\* the preview length and the threshold
RunSizes == {1, 1999, 2000, 2001, 8239, 8240, 8241, 10239, 10240, 10241, 20000}
SerializedResults ==
    { << <<u, n>> >> : u \in {"x", "\""}, n \in RunSizes }
    \cup { << <<u, n>>, <<v, m>> >> :
              u \in {"x", "\""}, v \in {"x", "\""}, n \in RunSizes, m \in RunSizes }

\* a tool call whose result serializes to `serialized`: the loop logs it and
\* appends it, whole, to the transcript
LedgerLogAction ==
    /\ Len(director_actions) < MaxLoggedResults
    /\ \E serialized \in SerializedResults :
         /\ director_actions' =
               log_action(director_actions, "s1", 1, "tool_call",
                          "get_step_payload", <<>>,
                          tool_result_json(serialized), TRUE, 0, 0, 0, <<>>)
         /\ messages' = Append(messages,
               [role |-> "tool", tool_call_id |-> <<1, 1>>,
                content |-> serialized])
    /\ UNCHANGED <<registryVars, pc, routerVars, director_sessions,
                   status_writes, eventVars, session_id, iteration, usage,
                   pending, result, counterVars, breakerVars, limitVars,
                   llm_calls>>

LedgerNext == LedgerLogAction

SpecLedger == Init /\ [][LedgerNext]_vars

\* the characters a marker adds around the preview of a result of n
\* characters
MarkerOverhead(n) ==
    UnitLen(MarkerHead) + Digits(n) + UnitLen(MarkerMid) + UnitLen(MarkerTail)

\* the text whose json.dumps string body is `body`
json_unescape(body) ==
    [i \in 1..Len(body) |->
        IF body[i][1] = "\\\"" THEN <<"\"", body[i][2]>> ELSE body[i]]

\* C29: a result of at most 10240 serialized characters is stored as it
\* is; a longer one is stored as the marker with the truncation flag, the
\* original size and the first 2000 characters of the serialized text; the
\* stored text has at most 10240 characters plus those the marker adds
\* around its preview.
C29_TruncatedAboveThreshold ==
    \A k \in 1..Len(director_actions) :
       LET serialized == messages[k].content
           stored == director_actions[k].tool_result
           preview == SubSeq(stored, 4, Len(stored) - 1)
       IN  /\ TextLen(serialized) <= 10240 => stored = serialized
           /\ TextLen(serialized) > 10240 =>
                 /\ Len(stored) >= 5
                 /\ stored[1] = <<MarkerHead, 1>>
                 /\ stored[2] = <<"#", TextLen(serialized)>>
                 /\ stored[3] = <<MarkerMid, 1>>
                 /\ Last(stored) = <<MarkerTail, 1>>
                 /\ json_unescape(preview) = Prefix(serialized, 2000)
                 /\ TextLen(json_unescape(preview)) = 2000
           /\ TextLen(stored)
                 <= 10240 + MarkerOverhead(TextLen(serialized))

\* C29 witness: a result of 10241 characters that begins with 2000 quotes
\* was logged, and its marker is twice as long as its preview
C29_Witness ==
    /\ Len(director_actions) = 1
    /\ TextLen(messages[1].content) = 10241
    /\ messages[1].content[1] = <<"\"", 2000>>
    /\ TextLen(director_actions[1].tool_result) > 4000

\* C30: when execute has returned after a terminal event, the status of the
\* session in the ledger is the status of that event.
C30_LedgerStatusIsEventStatus ==
    (pc = "done" /\ session_id # 0 /\ TerminalEvents(events) # <<>>) =>
        director_sessions[session_id].status = Last(events).status

\* execute has returned after a terminal event of a session
Terminated ==
    pc = "done" /\ session_id # 0 /\ TerminalEvents(events) # <<>>

\* the counters of the session record are the totals of the loop
CountersStored ==
    /\ director_sessions[session_id].total_iterations = iteration
    /\ director_sessions[session_id].total_tool_calls = total_tool_calls
    /\ director_sessions[session_id].total_rerenders = total_rerenders
    /\ director_sessions[session_id].total_tokens_input = total_tokens_input
    /\ director_sessions[session_id].total_tokens_output = total_tokens_output
    /\ director_sessions[session_id].total_cost_usd = total_cost

\* C31: when execute has returned after a terminal event, whatever the
\* outcome, the counters of the session record are the totals the loop has
\* accumulated.
C31_CountersStoredAtTermination == Terminated => CountersStored

\* session_created, tool_call events, at most one terminal event, last
EventStreamShape ==
    /\ events # <<>> => events[1].type = "session_created"
    /\ \A k \in 2..Len(events) :
          /\ events[k].type \in {"tool_call", "complete", "error"}
          /\ events[k].type # "tool_call" => (k = Len(events) /\ pc = "done")
    /\ (pc = "done" /\ session_id # 0) =>
          (Len(events) >= 2 /\ Last(events).type \in {"complete", "error"})

\* no event is emitted once a complete or error event has been
NothingAfterTerminalEvent ==
    TerminalEvents(events) # <<>> => events' = events

\* C32: the first event of the loop is session_created; every later event
\* is a tool_call, a complete or an error event; a complete or error event
\* is the last event and execute has returned after it; and when execute
\* has returned without raising, the last event is a complete or error
\* event; and no step emits an event after a complete or error event.
C32_EventStreamShape ==
    /\ []EventStreamShape
    /\ [][NothingAfterTerminalEvent]_vars

\* C32 witness: a run of two tool calls has ended at the budget gate
C32_Witness ==
    /\ pc = "done"
    /\ Len(events) = 4
    /\ events[2].type = "tool_call"
    /\ events[3].type = "tool_call"
    /\ events[4].type = "error"
    /\ events[4].status = "budget_exceeded"

\* the length of the run of failed tool calls that ends the first n rows
RECURSIVE TrailingFailedCalls(_, _)
TrailingFailedCalls(rows, n) ==
    IF n = 0 THEN 0
    ELSE IF ~ rows[n].tool_success
         THEN 1 + TrailingFailedCalls(rows, n - 1)
         ELSE 0

\* C33: as long as execute has not returned, the consecutive-failure
\* counter is the length of the run of failed tool calls that ends the
\* calls the loop has gone through (all the calls logged, except, at the
\* yield of a tool_call event, the call of that event, which the counter
\* takes in when the generator is resumed), and it is less than 3.
C33_FailureCounterIsTrailingRun ==
    pc # "done" =>
       LET rows == ToolCallRows
           through == IF pc = "tool_call_yield" THEN Len(rows) - 1 ELSE Len(rows)
       IN  /\ consecutive_failures = TrailingFailedCalls(rows, through)
           /\ consecutive_failures < 3

\* C33 witness: a success followed by two failures, the loop still running
\* with the counter at 2
C33_Witness ==
    /\ pc \in {"tools", "iterate"}
    /\ Len(ToolCallRows) = 3
    /\ ToolCallRows[1].tool_success
    /\ consecutive_failures = 2

\* the model calls issued so far, against the iterations started
ModelCallsWithinCeiling ==
    /\ llm_calls <= director_max_iterations
    /\ pc \in {"iterate", "tools", "tool_call_yield"} =>
          iteration \in 1..director_max_iterations
    /\ pc = "iterate" => llm_calls = iteration - 1
    /\ pc \in {"tools", "tool_call_yield", "raised"} => llm_calls = iteration
    /\ (pc = "done" /\ session_id # 0) =>
          llm_calls = IF Last(events).status = "budget_exceeded"
                      THEN iteration - 1 ELSE iteration

\* a model call is issued from the top of an iteration, past the budget
\* gate, one at a time
ModelCallPastBudgetGate ==
    llm_calls' # llm_calls =>
       /\ llm_calls' = llm_calls + 1
       /\ pc = "iterate"
       /\ ~ OverBudget

\* C34: at most director_max_iterations model calls are issued; while the
\* loop is running the iteration is within 1..director_max_iterations; the
\* number of model calls issued is the number of iterations started, less
\* the current one as long as its call has not been issued, which includes
\* the iteration that ended at the budget gate; a model call is only
\* issued from the top of an iteration whose budget gate did not fire.
C34_OneModelCallPerIteration ==
    /\ []ModelCallsWithinCeiling
    /\ [][ModelCallPastBudgetGate]_vars

\* C34 witness: the ceiling was reached with one model call per iteration
C34_Witness ==
    /\ pc = "done"
    /\ events # <<>>
    /\ Last(events).status = "max_iterations"
    /\ iteration = director_max_iterations
    /\ llm_calls = director_max_iterations

\* the successful re_render and replay_from_step calls of the session
SuccessfulRenders ==
    SelectSeq(ToolCallRows,
              LAMBDA a : a.tool_name \in {"re_render", "replay_from_step"}
                         /\ a.tool_success)

\* C35: the loop's tool-call count is the number of tool_call events and of
\* tool_call actions, and its render count the number of successful
\* re_render and replay_from_step calls; the complete event reports that
\* tool-call count and the session record stores both counts.
C35_ToolCallCountsAgree ==
    LET rows == ToolCallRows
    IN  /\ pc \notin {"idle", "routed", "session_created"} =>
              /\ total_tool_calls = Len(rows)
              /\ total_tool_calls = Len(ToolCallEvents)
              /\ total_rerenders = Len(SuccessfulRenders)
        /\ FinalAnswered =>
              /\ Last(events).total_tool_calls = Len(rows)
              /\ director_sessions[session_id].total_tool_calls = Len(rows)
              /\ director_sessions[session_id].total_rerenders
                    = Len(SuccessfulRenders)

\* C35 witness: a final answer after a successful and a failed re_render
C35_Witness ==
    /\ FinalAnswered
    /\ Last(events).total_tool_calls = 2
    /\ director_sessions[session_id].total_rerenders = 1
    /\ \A k \in 1..Len(ToolCallRows) : ToolCallRows[k].tool_name = "re_render"

\* a step of a session in which the counter of a rate-limited tool of the
\* session's registry went from `before` to `after`, the call returning
\* `res` with its remaining count in the field `remaining`
QuotaStep(before, after, res, remaining) ==
    (session_id' = session_id /\ after # before) =>
       /\ after = before + 1
       /\ "error" \notin DOMAIN res =>
             /\ after <= director_max_rerenders
             /\ res[remaining] = director_max_rerenders - after
             /\ res[remaining] >= 0
       /\ after > director_max_rerenders =>
             /\ "error" \in DOMAIN res
             /\ "limit_reached" \in DOMAIN res

\* C36: every call of re_render or replay_from_step through a registry
\* raises that registry's counter of the tool by one, whatever the backend
\* answers; a call returns a success only while the counter is at most
\* director_max_rerenders, with a remaining count that is not negative, so
\* that a registry yields at most director_max_rerenders successes per tool;
\* every call beyond that returns an error with limit_reached, and the same
\* one whatever the backend would have answered.
C36_QuotaPerRegistry ==
    [][ /\ \A sp \in Specialists :
             /\ QuotaStep(rerender_count[sp], rerender_count'[sp], result',
                          "remaining_rerenders")
             /\ QuotaStep(replay_count[sp], replay_count'[sp], result',
                          "remaining_replays")
        /\ (session_id' = session_id /\ total_tool_calls' # total_tool_calls) =>
              rerender_count'[specialist] + replay_count'[specialist]
                 = rerender_count[specialist] + replay_count[specialist] + 1
        /\ \A b \in BackendOutcomes :
              /\ re_render(director_max_rerenders + 1, director_max_rerenders, b)
                    = re_render(director_max_rerenders + 1,
                                director_max_rerenders, "ok")
              /\ replay_from_step(director_max_rerenders + 1,
                                  director_max_rerenders, b)
                    = replay_from_step(director_max_rerenders + 1,
                                       director_max_rerenders, "ok")
      ]_vars

\* C36 witness: the first re_render of a later session of the payload
\* specialist is rejected, the quota of its registry being used up
C36_Witness ==
    /\ pc = "session"
    /\ specialist = "payload_specialist"
    /\ session_id >= 2
    /\ total_tool_calls = 1
    /\ rerender_count[specialist] = director_max_rerenders + 1
    /\ "limit_reached" \in DOMAIN result

\* C37: the loop runs on a transcript that is built; once built, the
\* transcript starts with a system turn and a user turn, followed by
\* assistant and tool turns only; and whenever the
\* loop stands before a model call other than the first, the last assistant
\* turn requested tool calls and is followed, up to the end of the
\* transcript, by one tool turn per requested call, in request order, each
\* with the id of its call.
C37_TranscriptWellFormed ==
    LET n == Len(messages)
    IN  /\ pc \in {"iterate", "tools", "tool_call_yield"} => n >= 2
        /\ n > 0 =>
              /\ n >= 2
              /\ messages[1].role = "system"
              /\ messages[2].role = "user"
              /\ \A k \in 3..n : messages[k].role \in {"assistant", "tool"}
        /\ (pc = "iterate" /\ iteration > 1) =>
              /\ \E i \in 3..n : messages[i].role = "assistant"
              /\ LET last == CHOOSE i \in 3..n :
                                /\ messages[i].role = "assistant"
                                /\ \A j \in (i + 1)..n :
                                      messages[j].role # "assistant"
                     calls == messages[last].tool_calls
                 IN  /\ "tool_calls" \in DOMAIN messages[last]
                     /\ n - last = Len(calls)
                     /\ \A j \in 1..Len(calls) :
                           /\ messages[last + j].role = "tool"
                           /\ messages[last + j].tool_call_id = calls[j].id

\* C37 witness: before the second model call, after a turn of two tool
\* calls of which the first failed
C37_Witness ==
    /\ pc = "iterate"
    /\ iteration = 2
    /\ Len(messages) = 5
    /\ "error" \in DOMAIN messages[4].content
    /\ messages[4].tool_call_id # messages[5].tool_call_id

====
